---- MODULE Spec2Model ----
(***************************************************************************)
(* State-machine model of the event recorder of video-feed:                *)
(*   videofeed/recorder.py  RecordingManager                               *)
(*   videofeed/detector.py  RTSPObjectDetector capture / processing loops  *)
(*                                                                         *)
(* Every method of RecordingManager that takes self._lock is one atomic    *)
(* action.  handle_detection reads time.time() before it takes the lock,   *)
(* so it is two steps (HandleDetectionBegin, HandleDetectionBody).         *)
(* Time is in whole seconds, confidences are in tenths.                    *)
(***************************************************************************)
EXTENDS Integers, Sequences, FiniteSets, TLC

(***************************************************************************)
(* Bounds of the model                                                     *)
(***************************************************************************)
Horizon == 5
MaxRecordings == 2
MaxRegisters == 2
MaxDetections == 3
MaxLag == 1
MaxFrames == 4
TimerCap == 3
PreBuffer == 1
Fps == 2
PostBuffer == 2
DetBufferSize == 1
MaxStopAlls == 2
MaxRows == 2
MaxTicks == 1
MaxDeletes == 2
MaxRmFailures == 1
MaxStorage == 4
MaxOpTime == 1
MaxBoxes == 2
MaxSide == 2
MaxStarts == 4
MaxDetectors == 3
MaxClips == 3

(***************************************************************************)
(* Program constants                                                       *)
(***************************************************************************)
MinGap == 5
MinConfidence == 5
CleanupLimit == 20
\* the age after which the specification has an unreferenced file swept
OrphanAge == 600

Streams == {"s1"}
Names == {"cam"}
Classes == {"person", "car"}
StartTime == MinGap
MaxTime == StartTime + Horizon

\* recording.record_objects of the configuration: the classes that may
\* trigger a recording (empty = all).
RecordObjects == {"person"}

Obj(c, k) == [class |-> c, confidence |-> k]

\* The detection lists a caller passes (objects of one frame): one that
\* qualifies and one below min_confidence ...
TimingEvents == { <<Obj("person", 5)>>, <<Obj("person", 3)>> }

\* ... and lists of other classes and confidences
DetectionEvents == TimingEvents \cup { <<Obj("car", 8)>> }

SetMax(S) == CHOOSE m \in S : \A x \in S : x <= m

\* max over the detections' confidences, 0 for none
MaxConf(objects) ==
  IF Len(objects) = 0 THEN 0
  ELSE SetMax({ objects[i].confidence : i \in 1..Len(objects) })

ClassNames(objects) == { objects[i].class : i \in 1..Len(objects) }

ConfText(k) == <<"0.0", "0.1", "0.2", "0.3", "0.4", "0.5", "0.6", "0.7", "0.8", "0.9", "1.0">>[k + 1]

\* json.dumps of a list of detection dicts: one token group per object
JsonDumps(objects) ==
  [ i \in 1..Len(objects) |->
      <<"{", "class", objects[i].class, "confidence", ConfText(objects[i].confidence), "}">> ]

\* the class names a reader of the JSON text finds
JsonClasses(text) == { text[i][3] : i \in 1..Len(text) }

VARIABLES
  now,                \* wall clock, time.time()
  frame_buffers,      \* stream_id -> stream_info (a dict: DOMAIN = registered)
  active_recordings,  \* insertion-ordered dict: sequence of recording_info
  writers,            \* the cv2.VideoWriter objects ever created
  timers,             \* threading.Timer objects not yet finished/cancelled
  rows,               \* table recordings of the catalogue
  row_seq,            \* AUTOINCREMENT counter of the table
  db_conn,            \* TRUE: connection open, FALSE: closed / None
  running,            \* RecordingManager.running
  stop_pc,            \* position of a stop() call: "idle" | "closing"
  hd,                 \* handle_detection calls between time.time() and the lock
  cap_seq,            \* frames the source of each stream has delivered
  det_running,        \* RTSPObjectDetector.running, per stream
  frame_queue,        \* RTSPObjectDetector.frame_buffer, per stream
  proc,               \* frame held by the processing thread, per stream
  nreg,               \* register_stream calls made so far
  ndet,               \* qualifying handle_detection calls made so far
  hist,               \* history, one entry per writer (not program state)
  lastq,              \* history: time of the last detection that started or
                      \* extended a recording, per stream
  npush,              \* history: add_frame calls since the stream's registration
  files,              \* the files under recordings_dir: path -> size, mtime
  jan,                \* the cleanup thread (_storage_cleanup_loop)
  stop_all_pc,        \* position of a DetectorManager.stop_all call
  stop_all_runs,      \* history: stop_all calls made so far
  api_log,            \* history: the delete_recording calls and their results
  unit                \* the object a specification of one function exercises

vars == << now, frame_buffers, active_recordings, writers, timers, rows,
           row_seq, db_conn, running, stop_pc, hd, cap_seq, det_running,
           frame_queue, proc, nreg, ndet, hist, lastq, npush, files, jan,
           stop_all_pc, stop_all_runs, api_log, unit >>

recorderVars == << frame_buffers, active_recordings, writers, timers, rows,
                   row_seq, hist, lastq, npush, files >>
detectorVars == << det_running, frame_queue, proc >>
callVars == << nreg, ndet >>
auxVars == << jan, stop_all_pc, stop_all_runs, api_log, unit >>

(***************************************************************************)
(* The recorder state as one value, so that the methods are functions.     *)
(***************************************************************************)
Cur ==
  [ fb |-> frame_buffers, ar |-> active_recordings, wr |-> writers,
    tm |-> timers, rows |-> rows, row_seq |-> row_seq, hist |-> hist,
    lastq |-> lastq, npush |-> npush, files |-> files ]

Set(R) ==
  /\ frame_buffers' = R.fb
  /\ active_recordings' = R.ar
  /\ writers' = R.wr
  /\ timers' = R.tm
  /\ rows' = R.rows
  /\ row_seq' = R.row_seq
  /\ hist' = R.hist
  /\ lastq' = R.lastq
  /\ npush' = R.npush
  /\ files' = R.files

Without(f, x) == [ y \in (DOMAIN f) \ {x} |-> f[y] ]

MaxLenAtLeastOne(pre, fps) == IF pre * fps < 1 THEN 1 ELSE pre * fps

\* register_stream: buffer_size = pre_detection_buffer * fps
MaxLen(pre, fps) == pre * fps

BufferSize == MaxLen(PreBuffer, Fps)

DequeAppendClears(buf, x, n) ==
  IF Len(buf) >= n THEN << x >> ELSE Append(buf, x)

\* collections.deque(maxlen=n).append
DequeAppend(buf, x, n) ==
  IF n = 0 THEN << >>
  ELSE IF Len(buf) >= n THEN Append(Tail(buf), x)
  ELSE Append(buf, x)

NewStreamInfo(name) ==
  [ buffer |-> << >>, name |-> name, last_recording |-> 0,
    recording_in_progress |-> FALSE, last_detection_time |-> 0,
    cooldown_timer |-> 0 ]

\* position of recording_id in active_recordings, 0 when absent
ARIndex(ar, id) ==
  IF \E i \in 1..Len(ar) : ar[i].id = id
  THEN CHOOSE i \in 1..Len(ar) : ar[i].id = id
  ELSE 0

\* first entry, in iteration order, whose stream_id is s; 0 when none
FirstForStream(ar, s) ==
  IF \E i \in 1..Len(ar) : ar[i].stream_id = s
  THEN CHOOSE i \in 1..Len(ar) :
         /\ ar[i].stream_id = s
         /\ \A j \in 1..(i - 1) : ar[j].stream_id # s
  ELSE 0

\* active_recordings[recording_id] = info
ARPut(ar, rec) ==
  IF ARIndex(ar, rec.id) # 0 THEN [ ar EXCEPT ![ARIndex(ar, rec.id)] = rec ]
  ELSE Append(ar, rec)

\* del active_recordings[recording_id]
ARDel(ar, id) == SelectSeq(ar, LAMBDA r : r.id # id)

\* threading.Timer.cancel(): stops a timer that has not started its callback
CancelTimer(tm, h) ==
  IF h \in DOMAIN tm /\ tm[h].st = "waiting" THEN Without(tm, h) ELSE tm

TimerFree(R, h) ==
  /\ h \notin DOMAIN R.tm
  /\ \A s \in DOMAIN R.fb : R.fb[s].cooldown_timer # h

TimerSlotFree(R) == Cardinality(DOMAIN R.tm) < TimerCap

\* a handle for a new Timer object: no live reference names it
NewTimer(R) ==
  CHOOSE h \in 1..(2 * TimerCap + Cardinality(Streams)) :
    /\ TimerFree(R, h)
    /\ \A g \in 1..(h - 1) : ~TimerFree(R, g)

\* RecordingManager._start_cooldown_timer
StartCooldownTimer(R, s, id, t) ==
  IF s \notin DOMAIN R.fb THEN R
  ELSE
    LET old == R.fb[s].cooldown_timer
        R1  == [ R EXCEPT !.tm = IF old # 0 THEN CancelTimer(R.tm, old) ELSE R.tm,
                          !.fb[s].cooldown_timer = 0 ]
        h   == NewTimer(R1)
    IN [ R1 EXCEPT
           !.tm = (h :> [ stream |-> s, rec |-> id, deadline |-> t + PostBuffer,
                          st |-> "waiting" ]) @@ R1.tm,
           !.fb[s].cooldown_timer = h ]

\* a file created at time t by cv2.VideoWriter or cv2.imwrite; sizes are in
\* units of the storage limit's granularity
NewFile(t) == [ size |-> 1, mtime |-> t ]

\* recordings_dir / "recordings.db", the default db_path
DbPath == << "recordings", 0, "db" >>

\* cv2.VideoWriter.write: a released writer takes no frame
WriterWrite(wr, w, f) ==
  IF wr[w].open THEN [ wr EXCEPT ![w].frames = Append(@, f) ] ELSE wr

\* the row _finalize_recording inserts
CatalogueRow(R, rec, t) ==
  [ id |-> R.row_seq + 1,
    timestamp |-> rec.start_time,
    stream_id |-> rec.stream_id,
    stream_name |-> rec.stream_name,
    file_path |-> rec.file_path,
    duration |-> t - rec.start_time,
    objects_detected |-> JsonDumps(rec.objects),
    thumbnail_path |-> rec.thumbnail_path,
    confidence |-> rec.confidence,
    retained |-> 1,
    w |-> rec.writer ]

\* RecordingManager._finalize_recording; ok: the INSERT and commit succeed
FinalizeRecording(R, id, t, ok) ==
  LET i == ARIndex(R.ar, id) IN
  IF i = 0 THEN R
  ELSE
    LET rec == R.ar[i]
        s   == rec.stream_id
        R1  == [ R EXCEPT !.wr[rec.writer].open = FALSE,
                          !.hist[rec.writer].frame_count = rec.frame_count ]
        R2  == IF s \in DOMAIN R1.fb
               THEN [ R1 EXCEPT
                        !.fb[s].recording_in_progress = FALSE,
                        !.tm = IF R1.fb[s].cooldown_timer # 0
                               THEN CancelTimer(R1.tm, R1.fb[s].cooldown_timer)
                               ELSE R1.tm,
                        !.fb[s].cooldown_timer = 0 ]
               ELSE R1
    IN IF ok
       THEN [ R2 EXCEPT !.rows = @ \cup { CatalogueRow(R2, rec, t) },
                        !.row_seq = @ + 1,
                        !.ar = ARDel(@, id) ]
       ELSE R2


PreRollSkipsOldest(buffer) == IF buffer = << >> THEN << >> ELSE Tail(buffer)

\* the pre-roll loop of handle_detection: every buffered frame that is not
\* None (0 stands for None), in buffer order
PreRoll(buffer) == SelectSeq(buffer, LAMBDA f : f # 0)

\* RecordingManager.register_stream
RegisterStreamOp(R, s, name) ==
  [ R EXCEPT
      !.fb = (s :> NewStreamInfo(name)) @@ R.fb,
      !.npush[s] = 0,
      !.hist = [ i \in DOMAIN R.hist |->
                   IF R.hist[i].stream = s
                   THEN [ R.hist[i] EXCEPT !.current = FALSE ]
                   ELSE R.hist[i] ] ]

\* RecordingManager.unregister_stream
UnregisterStreamOp(R, s) ==
  IF s \in DOMAIN R.fb THEN [ R EXCEPT !.fb = Without(R.fb, s) ] ELSE R

\* RecordingManager.add_frame
AddFrameOp(R, s, f, t) ==
  IF s \notin DOMAIN R.fb THEN R
  ELSE
    LET R1 == [ R EXCEPT !.fb[s].buffer = DequeAppend(@, f, BufferSize),
                         !.npush[s] = @ + 1 ] IN
    IF ~R1.fb[s].recording_in_progress THEN R1
    ELSE
      [ R1 EXCEPT
          !.wr = [ w \in DOMAIN R1.wr |->
                     IF \E i \in 1..Len(R1.ar) :
                          R1.ar[i].stream_id = s /\ R1.ar[i].writer = w
                     THEN WriterWrite(R1.wr, w, f)[w]
                     ELSE R1.wr[w] ],
          !.ar = [ i \in DOMAIN R1.ar |->
                     IF R1.ar[i].stream_id = s
                     THEN [ R1.ar[i] EXCEPT !.frame_count = @ + 1,
                                            !.last_frame_time = t ]
                     ELSE R1.ar[i] ] ]

\* handle_detection, recording_in_progress branch (lines 237-255)
ExtendRecording(R, s, d, t) ==
  LET i == FirstForStream(R.ar, s) IN
  IF i = 0 THEN R
  ELSE
    LET rec == R.ar[i]
        old == R.fb[s].cooldown_timer
        R1  == [ R EXCEPT
                   !.ar[i].last_detection_time = d.t,
                   !.tm = IF old # 0 THEN CancelTimer(R.tm, old) ELSE R.tm,
                   !.fb[s].cooldown_timer = 0,
                   !.hist[rec.writer].max_conf =
                       IF d.confidence > @ THEN d.confidence ELSE @,
                   !.hist[rec.writer].classes = @ \cup ClassNames(d.objects),
                   !.lastq[s] = d.t ]
    IN StartCooldownTimer(R1, s, rec.id, t)

\* handle_detection, start of a new recording (lines 261-320)
StartRecording(R, s, d, t) ==
  LET info == R.fb[s]
      \* f"{stream_id}_{int(current_time * 1000)}": the clock of the model
      \* counts seconds; two calls never read the same millisecond, and the
      \* ordinal of the call's writer stands for the part below the second
      id   == << s, d.t, Len(R.wr) + 1 >>
      w    == Len(R.wr) + 1
      video_path     == << info.name, t, "mp4" >>
      thumbnail_path == << info.name, t, "thumb" >>
      rec  == [ id |-> id,
                stream_id |-> s,
                stream_name |-> info.name,
                start_time |-> d.t,
                last_detection_time |-> d.t,
                last_frame_time |-> d.t,
                writer |-> w,
                file_path |-> video_path,
                thumbnail_path |-> thumbnail_path,
                frame_count |-> Len(info.buffer),
                objects |-> d.objects,
                confidence |-> d.confidence ]
      R1   == [ R EXCEPT
                  !.wr = Append(@, [ frames |-> PreRoll(info.buffer) \o << d.frame >>,
                                     open |-> TRUE,
                                     path |-> video_path ]),
                  !.fb[s].recording_in_progress = TRUE,
                  !.fb[s].last_recording = d.t,
                  !.ar = ARPut(@, rec),
                  !.hist = Append(@, [ stream |-> s,
                                       start |-> d.t,
                                       current |-> TRUE,
                                       ring_at_start |-> info.buffer,
                                       trigger |-> d.frame,
                                       trigger_classes |-> ClassNames(d.objects),
                                       max_conf |-> d.confidence,
                                       classes |-> ClassNames(d.objects),
                                       tfin_gap |-> -1,
                                       pushed |-> R.npush[s],
                                       frame_count |-> -1 ]),
                  !.files = (thumbnail_path :> NewFile(t))
                            @@ (video_path :> NewFile(t)) @@ @,
                  !.lastq[s] = d.t ]
  IN StartCooldownTimer(R1, s, id, t)

RateLimitedOffByOne(info, d) == d.t - info.last_recording < MinGap - 1

\* handle_detection, lines 257-259: fewer than 5 seconds since the stream's
\* last recording started
RateLimited(info, d) == d.t - info.last_recording < MinGap

\* handle_detection under the lock (lines 226-320); d.t is the time.time()
\* read before the lock was taken, t the time at which the body runs
HandleDetectionOp(R, s, d, t) ==
  IF s \notin DOMAIN R.fb THEN R
  ELSE
    LET R1 == [ R EXCEPT !.fb[s].last_detection_time = d.t ] IN
    IF R1.fb[s].recording_in_progress THEN ExtendRecording(R1, s, d, t)
    ELSE IF RateLimited(R1.fb[s], d) THEN R1
    ELSE StartRecording(R1, s, d, t)

\* _check_recording_status under the lock; ok: the catalogue insert succeeds
CheckRecordingStatusOp(R, s, id, t, ok) ==
  IF s \notin DOMAIN R.fb \/ ARIndex(R.ar, id) = 0 THEN R
  ELSE
    LET rec == R.ar[ARIndex(R.ar, id)]
        time_since_last_detection == t - rec.last_detection_time
    IN IF time_since_last_detection >= PostBuffer
       THEN FinalizeRecording(
              [ R EXCEPT !.fb[s].cooldown_timer = 0,
                         !.hist[rec.writer].tfin_gap = t - R.lastq[s] ],
              id, t, ok)
       ELSE StartCooldownTimer(R, s, id, t)

RECURSIVE FinalizeAll(_, _, _, _)
\* the loop of stop() over list(active_recordings.items())
FinalizeAll(R, ids, t, okset) ==
  IF ids = << >> THEN R
  ELSE FinalizeAll(FinalizeRecording(R, Head(ids), t, Head(ids) \in okset),
                   Tail(ids), t, okset)

ActiveIds(ar) == [ i \in 1..Len(ar) |-> ar[i].id ]

(***************************************************************************)
(* Initial state: RecordingManager.__init__ has run, nothing is started.   *)
(***************************************************************************)
InitButUnit ==
  /\ now = StartTime
  /\ frame_buffers = << >>
  /\ active_recordings = << >>
  /\ writers = << >>
  /\ timers = << >>
  /\ rows = {}
  /\ row_seq = 0
  /\ db_conn = TRUE
  /\ running = FALSE
  /\ stop_pc = "idle"
  /\ hd = << >>
  /\ cap_seq = [ s \in Streams |-> 0 ]
  /\ det_running = [ s \in Streams |-> FALSE ]
  /\ frame_queue = [ s \in Streams |-> << >> ]
  /\ proc = << >>
  /\ nreg = 0
  /\ ndet = 0
  /\ hist = << >>
  /\ lastq = [ s \in Streams |-> 0 ]
  /\ npush = [ s \in Streams |-> 0 ]
  /\ files = (DbPath :> NewFile(0))
  /\ jan = [ pc |-> "sleep", batch |-> << >>, ticks |-> 0, fails |-> 0 ]
  /\ stop_all_pc = "idle"
  /\ stop_all_runs = 0
  /\ api_log = [ ncalls |-> 0, called |-> {} ]

Init == InitButUnit /\ unit = << >>

(***************************************************************************)
(* Actions                                                                 *)
(***************************************************************************)
Tick ==
  /\ now < MaxTime
  /\ \A s \in DOMAIN hd : now - hd[s].t < MaxLag
  /\ now' = now + 1
  /\ UNCHANGED << recorderVars, db_conn, running, stop_pc, hd, cap_seq, detectorVars, callVars, auxVars >>

RegisterStream(s, name) ==
  /\ nreg < MaxRegisters
  /\ nreg' = nreg + 1
  /\ Set(RegisterStreamOp(Cur, s, name))
  /\ UNCHANGED << now, db_conn, running, stop_pc, hd, cap_seq, detectorVars, ndet, auxVars >>

UnregisterStream(s) ==
  /\ s \in DOMAIN frame_buffers
  /\ Set(UnregisterStreamOp(Cur, s))
  /\ UNCHANGED << now, db_conn, running, stop_pc, hd, cap_seq, detectorVars, callVars, auxVars >>

\* add_frame called with the next frame of the stream
AddFrame(s) ==
  /\ cap_seq[s] < MaxFrames
  /\ cap_seq' = [ cap_seq EXCEPT ![s] = @ + 1 ]
  /\ Set(AddFrameOp(Cur, s, cap_seq[s] + 1, now))
  /\ UNCHANGED << now, db_conn, running, stop_pc, hd, detectorVars, callVars, auxVars >>

\* handle_detection up to the lock (lines 220-224)
HandleDetectionBegin(s, objects, frame) ==
  /\ s \notin DOMAIN hd
  /\ LET confidence == MaxConf(objects) IN
     IF confidence < MinConfidence
     THEN hd' = hd /\ ndet' = ndet
     ELSE /\ ndet < MaxDetections
          /\ ndet' = ndet + 1
          /\ hd' = (s :> [ t |-> now, objects |-> objects,
                           confidence |-> confidence, frame |-> frame ]) @@ hd

HandleDetection(s, objects) ==
  /\ HandleDetectionBegin(s, objects, cap_seq[s])
  /\ UNCHANGED << now, recorderVars, db_conn, running, stop_pc, cap_seq, detectorVars, nreg, auxVars >>

\* the call would start a new recording (none in progress, not rate-limited)
WouldStart(s, d) ==
  /\ s \in DOMAIN frame_buffers
  /\ ~frame_buffers[s].recording_in_progress
  /\ ~RateLimited(frame_buffers[s], d)

HandleDetectionBody(s) ==
  /\ s \in DOMAIN hd
  /\ WouldStart(s, hd[s]) => Len(writers) < MaxRecordings
  /\ TimerSlotFree(Cur)
  /\ Set(HandleDetectionOp(Cur, s, hd[s], now))
  /\ hd' = Without(hd, s)
  /\ UNCHANGED << now, db_conn, running, stop_pc, cap_seq, detectorVars, callVars, auxVars >>

\* the Timer thread wakes up after its interval and finds itself not cancelled
TimerExpire(h) ==
  /\ h \in DOMAIN timers
  /\ timers[h].st = "waiting"
  /\ now >= timers[h].deadline
  /\ timers' = [ timers EXCEPT ![h].st = "fired" ]
  /\ UNCHANGED << now, frame_buffers, active_recordings, writers, rows, row_seq,
                  hist, lastq, npush, files, db_conn, running, stop_pc, hd, cap_seq, detectorVars, callVars, auxVars >>

\* the Timer thread runs _check_recording_status and ends
CheckRecordingStatus(h, ok) ==
  /\ h \in DOMAIN timers
  /\ timers[h].st = "fired"
  /\ Set(CheckRecordingStatusOp([ Cur EXCEPT !.tm = Without(timers, h) ],
                                timers[h].stream, timers[h].rec, now,
                                ok /\ db_conn))
  /\ UNCHANGED << now, db_conn, running, stop_pc, hd, cap_seq, detectorVars, callVars, auxVars >>

\* RecordingManager.start
Start ==
  /\ ~running
  /\ running' = TRUE
  /\ UNCHANGED << now, recorderVars, db_conn, stop_pc, hd, cap_seq, detectorVars, callVars, auxVars >>

\* RecordingManager.stop, lines 115-124
StopFinalize(okset) ==
  /\ stop_pc = "idle"
  /\ running' = FALSE
  /\ stop_pc' = "closing"
  /\ Set(FinalizeAll(Cur, ActiveIds(active_recordings), now,
                     IF db_conn THEN okset ELSE {}))
  /\ UNCHANGED << now, db_conn, hd, cap_seq, detectorVars, callVars, auxVars >>

\* RecordingManager.stop, lines 126-131
StopClose ==
  /\ stop_pc = "closing"
  /\ db_conn' = FALSE
  /\ stop_pc' = "idle"
  /\ UNCHANGED << now, recorderVars, running, hd, cap_seq, detectorVars, callVars, auxVars >>

(***************************************************************************)
(* The detector of one stream (detector.py): the capture thread reads a    *)
(* frame, gives a copy to the recorder and offers it to the processing     *)
(* thread through frame_buffer; the processing thread takes a frame, runs  *)
(* the model and _process_results, which calls handle_detection.           *)
(***************************************************************************)
\* queue.Queue(maxsize).put(frame, block=False): a full queue drops the frame
QueuePut(q, f) == IF Len(q) < DetBufferSize THEN Append(q, f) ELSE q

\* RTSPObjectDetector.start
DetectorStart(s, name) ==
  /\ ~det_running[s]
  /\ nreg < MaxRegisters
  /\ nreg' = nreg + 1
  /\ det_running' = [ det_running EXCEPT ![s] = TRUE ]
  /\ Set(RegisterStreamOp(Cur, s, name))
  /\ UNCHANGED << now, db_conn, running, stop_pc, hd, cap_seq, frame_queue, proc, ndet, auxVars >>

\* RTSPObjectDetector.stop, lines 116-128
DetectorStop(s) ==
  /\ det_running[s]
  /\ det_running' = [ det_running EXCEPT ![s] = FALSE ]
  /\ Set(UnregisterStreamOp(Cur, s))
  /\ frame_queue' = [ frame_queue EXCEPT ![s] = << >> ]
  /\ UNCHANGED << now, db_conn, running, stop_pc, hd, cap_seq, proc, callVars, auxVars >>

\* one pass of _capture_loop with a frame read (lines 205-233)
Capture(s) ==
  /\ det_running[s]
  /\ cap_seq[s] < MaxFrames
  /\ cap_seq' = [ cap_seq EXCEPT ![s] = @ + 1 ]
  /\ Set(AddFrameOp(Cur, s, cap_seq[s] + 1, now))
  /\ frame_queue' = [ frame_queue EXCEPT ![s] = QueuePut(@, cap_seq[s] + 1) ]
  /\ UNCHANGED << now, db_conn, running, stop_pc, hd, det_running, proc, callVars, auxVars >>

\* _processing_loop, line 240: frame_buffer.get
ProcGet(s) ==
  /\ det_running[s]
  /\ s \notin DOMAIN proc
  /\ s \notin DOMAIN hd
  /\ frame_queue[s] # << >>
  /\ proc' = (s :> Head(frame_queue[s])) @@ proc
  /\ frame_queue' = [ frame_queue EXCEPT ![s] = Tail(@) ]
  /\ UNCHANGED << now, recorderVars, db_conn, running, stop_pc, hd, cap_seq,
                  det_running, callVars, auxVars >>

\* _processing_loop, lines 243-246 and _process_results: the model finds
\* `objects` in the frame taken; with detections it calls handle_detection
\* with the annotated copy of that frame
ProcResults(s, objects) ==
  /\ s \in DOMAIN proc
  /\ proc' = Without(proc, s)
  /\ IF objects # << >> /\ MaxConf(objects) > 0
     THEN HandleDetectionBegin(s, objects, proc[s])
     ELSE hd' = hd /\ ndet' = ndet
  /\ UNCHANGED << now, recorderVars, db_conn, running, stop_pc, cap_seq,
                  det_running, frame_queue, nreg, auxVars >>

(***************************************************************************)
(* The catalogue queries of RecordingsAPI (api.py), as functions of the    *)
(* rows; db_ok: the connection is open (a closed one raises, and the       *)
(* method returns its empty answer).                                       *)
(***************************************************************************)
\* float() of the text json.dumps wrote for a confidence
ParseConf(text) == (CHOOSE k \in 1..11 : ConfText(k - 1) = text) - 1

\* json.loads of the objects_detected column
JsonLoads(text) == [ i \in 1..Len(text) |-> Obj(text[i][3], ParseConf(text[i][5])) ]

\* dict(zip(columns, row)) with objects_detected parsed
RowDict(r) ==
  [ id |-> r.id, timestamp |-> r.timestamp, stream_id |-> r.stream_id,
    stream_name |-> r.stream_name, file_path |-> r.file_path,
    duration |-> r.duration, objects_detected |-> JsonLoads(r.objects_detected),
    thumbnail_path |-> r.thumbnail_path, confidence |-> r.confidence,
    retained |-> r.retained ]

\* get_recording_by_id: SELECT * FROM recordings WHERE id = ? AND retained = 1;
\* the empty set stands for None
GetRecordingById(rs, id, db_ok) ==
  IF db_ok THEN { RowDict(r) : r \in { x \in rs : x.id = id /\ x.retained = 1 } }
  ELSE {}

\* an optional argument is the empty set (None) or a singleton
Retained(rs) == { r \in rs : r.retained = 1 }

\* the strings json.dumps wrote between double quotes: the keys of a
\* detection dict ("bbox", a list of integers, is not carried by Obj) and
\* the class name
JsonQuoted(text) ==
  UNION { { text[i][2], text[i][3], text[i][4], "bbox" } : i \in 1..Len(text) }

\* ASCII lower case, on the strings of the model
LowerCase(str) == IF str = "Person" THEN "person" ELSE str

\* objects_detected LIKE '%"<object_type>"%'; the LIKE of SQLite does not
\* distinguish the case of ASCII letters
Like(text, object_type) ==
  \E q \in JsonQuoted(text) : LowerCase(q) = LowerCase(object_type)

\* the WHERE clause get_recordings and get_recordings_count build
RecordingsWhere(rs, f) ==
  { r \in rs :
      /\ r.retained = 1
      /\ \A v \in f.stream_id : r.stream_id = v
      /\ \A v \in f.start_date : r.timestamp >= v
      /\ \A v \in f.end_date : r.timestamp <= v
      /\ \A v \in f.object_type : Like(r.objects_detected, v)
      /\ \A v \in f.min_confidence : r.confidence >= v }

\* the validation of sort_by and sort_order in get_recordings
SortColumn(sort_by) ==
  IF sort_by \in {"timestamp", "confidence", "duration"} THEN sort_by ELSE "timestamp"
SortDescending(sort_order) == sort_order # "asc"

\* ORDER BY <column> ASC|DESC (rows of one key by rowid)
OrderedBefore(a, b, column, desc) ==
  \/ (IF desc THEN a[column] > b[column] ELSE a[column] < b[column])
  \/ (a[column] = b[column] /\ a.id < b.id)

RECURSIVE OrderBy(_, _, _)
OrderBy(rs, column, desc) ==
  IF rs = {} THEN << >>
  ELSE LET r == CHOOSE x \in rs : \A y \in rs \ {x} : OrderedBefore(x, y, column, desc)
       IN << r >> \o OrderBy(rs \ {r}, column, desc)

\* LIMIT ? OFFSET ?
LimitOffset(seq, limit, offset) ==
  LET last == IF offset + limit < Len(seq) THEN offset + limit ELSE Len(seq)
  IN SubSeq(seq, offset + 1, last)

\* RecordingsAPI.get_recordings
GetRecordings(rs, f, sort_by, sort_order, limit, offset, db_ok) ==
  IF ~db_ok THEN << >>
  ELSE LET page == LimitOffset(OrderBy(RecordingsWhere(rs, f), SortColumn(sort_by),
                                       SortDescending(sort_order)), limit, offset)
       IN [ i \in 1..Len(page) |-> RowDict(page[i]) ]

\* RecordingsAPI.get_recordings_count
GetRecordingsCount(rs, f, db_ok) ==
  IF ~db_ok THEN 0 ELSE Cardinality(RecordingsWhere(rs, f))

\* RecordingManager.get_recordings
ManagerGetRecordings(rs, f, limit, offset, db_ok) ==
  IF ~db_ok THEN << >>
  ELSE LET sel == { r \in rs : /\ r.retained = 1
                               /\ \A v \in f.stream_id : r.stream_id = v
                               /\ \A v \in f.start_date : r.timestamp >= v
                               /\ \A v \in f.end_date : r.timestamp <= v }
           page == LimitOffset(OrderBy(sel, "timestamp", TRUE), limit, offset)
       IN [ i \in 1..Len(page) |-> RowDict(page[i]) ]

\* the WHERE clause get_alerts and get_alerts_count build
AlertsWhere(rs, f) ==
  { r \in rs :
      /\ r.retained = 1
      /\ r.confidence >= f.min_confidence
      /\ \A v \in f.start_date : r.timestamp >= v
      /\ \A v \in f.end_date : r.timestamp <= v
      /\ \A v \in f.object_type : Like(r.objects_detected, v) }

\* the objects of the classes asked for, in their order
RECURSIVE SelectObjects(_, _)
SelectObjects(objects, classes) ==
  IF objects = << >> THEN << >>
  ELSE (IF Head(objects).class \in classes THEN << Head(objects) >> ELSE << >>)
       \o SelectObjects(Tail(objects), classes)

\* object_counts: class -> number of objects of the class
ObjectCounts(objects) ==
  [ c \in ClassNames(objects) |->
      Cardinality({ i \in 1..Len(objects) : objects[i].class = c }) ]

\* one element of the list get_alerts returns
Alert(r, f) ==
  LET all  == JsonLoads(r.objects_detected)
      objs == IF f.object_type = {} THEN all ELSE SelectObjects(all, f.object_type)
  IN [ id |-> r.id, timestamp |-> r.timestamp, stream_id |-> r.stream_id,
       stream_name |-> r.stream_name, confidence |-> r.confidence,
       objects_detected |-> objs, thumbnail_path |-> r.thumbnail_path,
       object_counts |-> ObjectCounts(objs) ]

\* RecordingsAPI.get_alerts
GetAlerts(rs, f, limit, offset, db_ok) ==
  IF ~db_ok THEN << >>
  ELSE LET page == LimitOffset(OrderBy(AlertsWhere(rs, f), "timestamp", TRUE), limit, offset)
       IN [ i \in 1..Len(page) |-> Alert(page[i], f) ]

\* RecordingsAPI.get_alerts_count
GetAlertsCount(rs, f, db_ok) ==
  IF ~db_ok THEN 0 ELSE Cardinality(AlertsWhere(rs, f))

\* round(count / total * 100, 2), in hundredths of a percent
Percentage(count, total) == (count * 20000 + total) \div (2 * total)

SeenObjectsPerDetection(objects) ==
  [ c \in ClassNames(objects) |->
      Cardinality({ i \in 1..Len(objects) : objects[i].class = c }) ]

\* get_object_stats, the loop over one row's objects: seen_objects, as the
\* increment each of its classes gets
SeenObjects(objects) == [ c \in ClassNames(objects) |-> 1 ]

\* get_object_stats, the loop over the rows fetched: object_counts
RECURSIVE CountObjects(_, _)
CountObjects(rs, object_counts) ==
  IF rs = {} THEN object_counts
  ELSE LET r    == CHOOSE x \in rs : TRUE
           seen == SeenObjects(JsonLoads(r.objects_detected))
       IN CountObjects(rs \ {r},
            [ c \in (DOMAIN object_counts) \cup (DOMAIN seen) |->
                (IF c \in DOMAIN object_counts THEN object_counts[c] ELSE 0)
                + (IF c \in DOMAIN seen THEN seen[c] ELSE 0) ])

\* RecordingsAPI.get_object_stats
GetObjectStats(rs, f, db_ok) ==
  LET sel == { r \in rs : /\ r.retained = 1
                          /\ \A v \in f.stream_id : r.stream_id = v
                          /\ \A v \in f.start_date : r.timestamp >= v
                          /\ \A v \in f.end_date : r.timestamp <= v }
      counts  == CountObjects(sel, << >>)
      classes == DOMAIN counts
  IN IF ~db_ok
     THEN [ total_recordings |-> 0, object_counts |-> << >>, object_percentages |-> << >> ]
     ELSE [ total_recordings |-> Cardinality(sel),
            object_counts |-> counts,
            object_percentages |->
              [ c \in classes |-> Percentage(counts[c], Cardinality(sel)) ] ]

\* strftime('%Y-%m-%d') of a time: the start of its day
DayStart(t) == t - (t % 86400)
\* dt.hour and dt.weekday() of a timestamp (1970-01-01 was a Thursday)
HourOf(t) == (t \div 3600) % 24
WeekdayOf(t) == ((t \div 86400) + 3) % 7

\* RecordingsAPI.get_time_stats at time t
GetTimeStats(rs, object_type, days, stream_id, t, db_ok) ==
  LET sel == { r \in rs : /\ r.retained = 1
                          /\ r.timestamp >= DayStart(t - days * 86400)
                          /\ \A v \in stream_id : r.stream_id = v }
      counted == { r \in sel :
                     \A v \in object_type : v \in ClassNames(JsonLoads(r.objects_detected)) }
  IN IF ~db_ok THEN [ hours |-> << >>, days |-> << >> ]
     ELSE [ hours |-> [ h \in 0..23 |->
                          Cardinality({ r \in counted : HourOf(r.timestamp) = h }) ],
            days  |-> [ d \in 0..6 |->
                          Cardinality({ r \in counted : WeekdayOf(r.timestamp) = d }) ] ]

RECURSIVE SumDuration(_)
SumDuration(rs) ==
  IF rs = {} THEN 0
  ELSE LET r == CHOOSE x \in rs : TRUE IN r.duration + SumDuration(rs \ {r})

GetStreamStatsAllRows(rs, stream_id, db_ok) ==
  LET sel == { r \in rs : r.stream_id = stream_id }
  IN IF ~db_ok
     THEN [ recording_count |-> 0, total_duration |-> 0, latest_recording |-> {} ]
     ELSE [ recording_count |-> Cardinality(sel),
            total_duration |-> SumDuration(sel),
            latest_recording |->
              { r.timestamp : r \in { x \in sel : \A y \in sel : y.timestamp <= x.timestamp } } ]

\* RecordingsAPI.get_stream_stats; latest_recording: the empty set stands for None
GetStreamStats(rs, stream_id, db_ok) ==
  LET sel == { r \in rs : r.stream_id = stream_id /\ r.retained = 1 }
  IN IF ~db_ok
     THEN [ recording_count |-> 0, total_duration |-> 0, latest_recording |-> {} ]
     ELSE [ recording_count |-> Cardinality(sel),
            total_duration |-> SumDuration(sel),
            latest_recording |->
              { r.timestamp : r \in { x \in sel : \A y \in sel : y.timestamp <= x.timestamp } } ]

(***************************************************************************)
(* The cleanup thread (_storage_cleanup_loop, _cleanup_old_recordings) and *)
(* delete_recording.  They take no lock; the loop body of the cleanup is   *)
(* one step per row.                                                       *)
(***************************************************************************)
RECURSIVE SumSizes(_, _)
SumSizes(fs, paths) ==
  IF paths = {} THEN 0
  ELSE LET p == CHOOSE q \in paths : TRUE
       IN fs[p].size + SumSizes(fs, paths \ {p})

\* sum(f.stat().st_size for f in recordings_dir.glob('**/*') if f.is_file())
TotalSize(fs) == SumSizes(fs, DOMAIN fs)

\* the order of ORDER BY timestamp ASC (rows of one timestamp by rowid)
RowBefore(a, b) ==
  a.timestamp < b.timestamp \/ (a.timestamp = b.timestamp /\ a.id < b.id)

RECURSIVE OrderByTimestamp(_)
OrderByTimestamp(rs) ==
  IF rs = {} THEN << >>
  ELSE LET r == CHOOSE x \in rs : \A y \in rs \ {x} : RowBefore(x, y)
       IN << r >> \o OrderByTimestamp(rs \ {r})

\* SELECT id, file_path, thumbnail_path FROM recordings WHERE retained = 1
\* ORDER BY timestamp ASC LIMIT 20
SelectOldest(rs) ==
  LET all == OrderByTimestamp({ r \in rs : r.retained = 1 })
      n   == IF Len(all) < CleanupLimit THEN Len(all) ELSE CleanupLimit
  IN [ i \in 1..n |-> [ id |-> all[i].id, file_path |-> all[i].file_path,
                        thumbnail_path |-> all[i].thumbnail_path ] ]

\* os.remove of the paths that exist
RemoveFiles(fs, paths) == [ p \in (DOMAIN fs) \ paths |-> fs[p] ]

\* the outcomes of removing the two files of a row: both calls succeed, the
\* first os.remove raises, or the second one does
RemoveOutcomes(fs, b) ==
  {"ok"} \cup (IF b.file_path \in DOMAIN fs THEN {"video_fails"} ELSE {})
         \cup (IF b.thumbnail_path \in DOMAIN fs THEN {"thumb_fails"} ELSE {})

\* the files left by the two os.remove calls
AfterRemove(fs, b, outcome) ==
  IF outcome = "ok" THEN RemoveFiles(fs, { b.file_path, b.thumbnail_path })
  ELSE IF outcome = "thumb_fails" THEN RemoveFiles(fs, { b.file_path })
  ELSE fs

SetNotRetainedDeletes(rs, id) == { r \in rs : r.id # id }

\* UPDATE recordings SET retained = 0 WHERE id = ?
SetNotRetained(rs, id) ==
  { IF r.id = id THEN [ r EXCEPT !.retained = 0 ] ELSE r : r \in rs }

\* total_size < max_storage_bytes * 0.8
BelowTarget(fs) == 5 * TotalSize(fs) < 4 * MaxStorage

\* _storage_cleanup_loop: the sleep ends, lines 513-521, and the SELECT of
\* _cleanup_old_recordings
JanitorWake ==
  /\ jan.pc = "sleep"
  /\ running
  /\ jan.ticks < MaxTicks
  /\ LET batch == IF TotalSize(files) > MaxStorage /\ db_conn
                  THEN SelectOldest(rows) ELSE << >>
     IN jan' = IF batch = << >>
               THEN [ jan EXCEPT !.ticks = @ + 1 ]
               ELSE [ jan EXCEPT !.pc = "clean", !.batch = batch ]
  /\ UNCHANGED << now, recorderVars, db_conn, running, stop_pc, hd, cap_seq,
                  detectorVars, callVars, stop_all_pc, stop_all_runs, api_log, unit >>

\* one pass of the loop of _cleanup_old_recordings, lines 538-558
JanitorStep(outcome) ==
  /\ jan.pc = "clean"
  /\ LET b == Head(jan.batch)
         updated == outcome = "ok" /\ db_conn
         fails == jan.fails + (IF outcome = "ok" THEN 0 ELSE 1)
     IN /\ outcome \in RemoveOutcomes(files, b)
        /\ outcome # "ok" => jan.fails < MaxRmFailures
        /\ files' = AfterRemove(files, b, outcome)
        /\ rows' = IF updated THEN SetNotRetained(rows, b.id) ELSE rows
        /\ jan' = IF BelowTarget(files') \/ Tail(jan.batch) = << >>
                  THEN [ pc |-> "sleep", batch |-> << >>,
                         ticks |-> jan.ticks + 1, fails |-> fails ]
                  ELSE [ jan EXCEPT !.batch = Tail(@), !.fails = fails ]
  /\ UNCHANGED << now, frame_buffers, active_recordings, writers, timers, row_seq,
                  hist, lastq, npush, db_conn, running, stop_pc, hd, cap_seq,
                  detectorVars, callVars, stop_all_pc, stop_all_runs, api_log, unit >>

\* SELECT file_path, thumbnail_path FROM recordings WHERE id = ?
RowsById(rs, id) == { r \in rs : r.id = id }

\* RecordingsAPI.delete_recording / RecordingManager.delete_recording
DeleteRecording(id, outcome) ==
  /\ api_log.ncalls < MaxDeletes
  /\ LET found == db_conn /\ RowsById(rows, id) # {}
         b     == IF found THEN CHOOSE r \in RowsById(rows, id) : TRUE
                  ELSE [ file_path |-> << >>, thumbnail_path |-> << >> ]
         ret   == found /\ outcome = "ok"
     IN /\ outcome \in (IF found THEN RemoveOutcomes(files, b) ELSE {"ok"})
        /\ files' = IF found THEN AfterRemove(files, b, outcome) ELSE files
        /\ rows' = IF ret THEN rows \ RowsById(rows, id) ELSE rows
        /\ api_log' = [ ncalls |-> api_log.ncalls + 1,
                        called |-> api_log.called \cup
                          { [ n |-> api_log.ncalls + 1, id |-> id, found |-> found,
                              file_path |-> b.file_path,
                              thumbnail_path |-> b.thumbnail_path,
                              ret |-> ret ] } ]
  /\ UNCHANGED << now, frame_buffers, active_recordings, writers, timers, row_seq,
                  hist, lastq, npush, db_conn, running, stop_pc, hd, cap_seq,
                  detectorVars, callVars, jan, stop_all_pc, stop_all_runs, unit >>

(***************************************************************************)
(* Shutdown (visualizer.py, DetectorManager.stop_all).                     *)
(***************************************************************************)
Signals == {"INT", "TERM"}

\* unregister_stream for every stream of S
UnregisterAll(R, S) == [ R EXCEPT !.fb = [ s \in (DOMAIN R.fb) \ S |-> R.fb[s] ] ]

\* DetectorManager.stop_all, lines 547-555: every detector is stopped
StopAll ==
  /\ stop_all_pc = "idle"
  /\ stop_all_runs < MaxStopAlls
  /\ stop_all_runs' = stop_all_runs + 1
  /\ stop_all_pc' = "recorder"
  /\ det_running' = [ s \in Streams |-> FALSE ]
  /\ frame_queue' = [ s \in Streams |->
                        IF det_running[s] THEN << >> ELSE frame_queue[s] ]
  /\ Set(UnregisterAll(Cur, { s \in Streams : det_running[s] }))
  /\ UNCHANGED << now, db_conn, running, stop_pc, hd, cap_seq, proc, callVars, jan, api_log, unit >>

\* start_visualizer.handle_exit: the handler of SIGINT and SIGTERM
HandleExit(signum) == StopAll

\* stop_all, line 562, and RecordingManager.stop, lines 115-124
StopAllRecorder(okset) ==
  /\ stop_all_pc = "recorder"
  /\ stop_all_pc' = "closing"
  /\ running' = FALSE
  /\ Set(FinalizeAll(Cur, ActiveIds(active_recordings), now,
                     IF db_conn THEN okset ELSE {}))
  /\ UNCHANGED << now, db_conn, stop_pc, hd, cap_seq, detectorVars, callVars,
                  jan, stop_all_runs, api_log, unit >>

\* RecordingManager.stop, lines 126-131, and the return of stop_all
StopAllClose ==
  /\ stop_all_pc = "closing"
  /\ stop_all_pc' = "idle"
  /\ db_conn' = FALSE
  /\ UNCHANGED << now, recorderVars, running, stop_pc, hd, cap_seq, detectorVars,
                  callVars, jan, stop_all_runs, api_log, unit >>

(***************************************************************************)
(* Spec: the recorder driven through its methods, one qualifying kind of   *)
(* detection.                                                              *)
(***************************************************************************)
Next ==
  \/ Tick
  \/ \E s \in Streams, name \in Names : RegisterStream(s, name)
  \/ \E s \in Streams : UnregisterStream(s)
  \/ \E s \in Streams, objects \in TimingEvents : HandleDetection(s, objects)
  \/ \E s \in Streams : HandleDetectionBody(s)
  \/ \E h \in DOMAIN timers : TimerExpire(h)
  \/ \E h \in DOMAIN timers, ok \in BOOLEAN : CheckRecordingStatus(h, ok)

Spec == Init /\ [][Next]_vars

(***************************************************************************)
(* ObjSpec: one registration, detections of several classes and            *)
(* confidences.                                                            *)
(***************************************************************************)
ObjNext ==
  \/ Tick
  \/ \E s \in Streams, name \in Names : RegisterStream(s, name)
  \/ \E s \in Streams, objects \in DetectionEvents : HandleDetection(s, objects)
  \/ \E s \in Streams : HandleDetectionBody(s)
  \/ \E h \in DOMAIN timers : TimerExpire(h)
  \/ \E h \in DOMAIN timers, ok \in BOOLEAN : CheckRecordingStatus(h, ok)

ObjSpec == Init /\ [][ObjNext]_vars

(***************************************************************************)
(* PipeSpec: the recorder driven by the detector's two threads, over a     *)
(* stretch of time shorter than a second (the clock does not advance and   *)
(* no cooldown timer expires).                                             *)
(***************************************************************************)
PipeNext ==
  \/ \E s \in Streams, name \in Names : DetectorStart(s, name)
  \/ \E s \in Streams : DetectorStop(s)
  \/ \E s \in Streams : Capture(s)
  \/ \E s \in Streams : ProcGet(s)
  \/ \E s \in Streams, objects \in TimingEvents \cup { << >> } : ProcResults(s, objects)
  \/ \E s \in Streams : HandleDetectionBody(s)

PipeSpec == Init /\ [][PipeNext]_vars

(***************************************************************************)
(* StopSpec: Spec with start() and stop() of the manager.                  *)
(***************************************************************************)
StopNext ==
  \/ Next
  \/ Start
  \/ \E okset \in SUBSET { active_recordings[i].id : i \in 1..Len(active_recordings) } :
       StopFinalize(okset)
  \/ StopClose

StopSpec == Init /\ [][StopNext]_vars

(***************************************************************************)
(* FrameSpec: a stream registered once; add_frame, handle_detection and    *)
(* stop() called directly, the clock held (no cooldown timer expires;      *)
(* stop() finalizes).                                                      *)
(***************************************************************************)
FrameNext ==
  \/ \E s \in Streams, name \in Names :
       s \notin DOMAIN frame_buffers /\ RegisterStream(s, name)
  \/ \E s \in Streams : AddFrame(s)
  \/ \E s \in Streams, objects \in TimingEvents : HandleDetection(s, objects)
  \/ \E s \in Streams : HandleDetectionBody(s)
  \/ \E okset \in SUBSET { active_recordings[i].id : i \in 1..Len(active_recordings) } :
       StopFinalize(okset)
  \/ StopClose

FrameSpec == Init /\ [][FrameNext]_vars

(***************************************************************************)
(* ShutdownSpec: detectors started by start_visualizer, detections of      *)
(* their processing threads, cooldown timers, and the signal handler.      *)
(***************************************************************************)
ShutdownNext ==
  \/ Tick
  \/ \E s \in Streams, name \in Names : DetectorStart(s, name)
  \/ \E s \in Streams, objects \in TimingEvents : HandleDetection(s, objects)
  \/ \E s \in Streams : HandleDetectionBody(s)
  \/ \E h \in DOMAIN timers : TimerExpire(h)
  \/ \E h \in DOMAIN timers, ok \in BOOLEAN : CheckRecordingStatus(h, ok)
  \/ \E signum \in Signals : HandleExit(signum)
  \/ \E okset \in SUBSET { active_recordings[i].id : i \in 1..Len(active_recordings) } :
       StopAllRecorder(okset)
  \/ StopAllClose

ShutdownSpec == Init /\ [][ShutdownNext]_vars

(***************************************************************************)
(* CatSpec: a manager started over the catalogue and the files an earlier  *)
(* run left (the database and the recordings persist), the cleanup thread  *)
(* and delete_recording; no stream is registered.                          *)
(***************************************************************************)
RemoveOutcomeNames == {"ok", "video_fails", "thumb_fails"}

\* what an earlier run recorded: a stream still configured and one that is not
RowKinds ==
  { [ stream_id |-> "s1", objects |-> << Obj("person", 5) >> ],
    [ stream_id |-> "s0", objects |-> << Obj("car", 8) >> ],
    [ stream_id |-> "s1",
      objects |-> << Obj("person", 6), Obj("car", 9), Obj("person", 7) >> ] }

\* the start of the i-th of the n recordings of the earlier run: the n
\* seconds before this run
OldTime(i, n) == StartTime - 1 - n + i

\* the row and the two files _finalize_recording and handle_detection left
\* for the i-th recording of the earlier run
OldRow(i, n, kind) ==
  [ id |-> i,
    timestamp |-> OldTime(i, n),
    stream_id |-> kind.stream_id,
    stream_name |-> "cam",
    file_path |-> << "cam", OldTime(i, n), "mp4" >>,
    duration |-> PostBuffer,
    objects_detected |-> JsonDumps(kind.objects),
    thumbnail_path |-> << "cam", OldTime(i, n), "thumb" >>,
    confidence |-> MaxConf(kind.objects),
    retained |-> 1,
    w |-> 0 ]

OldFiles(n) ==
  [ p \in { << "cam", OldTime(i, n), x >> : i \in 1..n, x \in {"mp4", "thumb"} }
      |-> NewFile(p[2]) ]

\* a thumbnail whose INSERT failed in the earlier run: no row names it
OrphanTime == StartTime - 1 - OrphanAge
OrphanPath == << "cam", OrphanTime, "thumb" >>

CatInitOf(n, kinds, orphan) ==
  /\ now = StartTime
  /\ frame_buffers = << >>
  /\ active_recordings = << >>
  /\ writers = << >>
  /\ timers = << >>
  /\ rows = { OldRow(i, n, kinds[i]) : i \in 1..n }
  /\ row_seq = n
  /\ db_conn = TRUE
  /\ running = TRUE
  /\ stop_pc = "idle"
  /\ hd = << >>
  /\ cap_seq = [ s \in Streams |-> 0 ]
  /\ det_running = [ s \in Streams |-> FALSE ]
  /\ frame_queue = [ s \in Streams |-> << >> ]
  /\ proc = << >>
  /\ nreg = 0
  /\ ndet = 0
  /\ hist = << >>
  /\ lastq = [ s \in Streams |-> 0 ]
  /\ npush = [ s \in Streams |-> 0 ]
  /\ files = (DbPath :> NewFile(0)) @@ OldFiles(n)
               @@ (IF orphan THEN (OrphanPath :> NewFile(OrphanTime)) ELSE << >>)
  /\ jan = [ pc |-> "sleep", batch |-> << >>, ticks |-> 0, fails |-> 0 ]
  /\ stop_all_pc = "idle"
  /\ stop_all_runs = 0
  /\ api_log = [ ncalls |-> 0, called |-> {} ]
  /\ unit = << >>

CatInit ==
  \E n \in 0..MaxRows, orphan \in BOOLEAN :
    \E kinds \in [ 1..n -> RowKinds ] : CatInitOf(n, kinds, orphan)

CatNext ==
  \/ JanitorWake
  \/ \E outcome \in RemoveOutcomeNames : JanitorStep(outcome)
  \/ \E id \in 1..(row_seq + 1), outcome \in RemoveOutcomeNames :
       DeleteRecording(id, outcome)

CatSpec == CatInit /\ [][CatNext]_vars

(***************************************************************************)
(* QuerySpec: the catalogue of an earlier run under the cleanup thread;    *)
(* the queries of RecordingsAPI read it in every state.                    *)
(***************************************************************************)
QueryNext ==
  \/ JanitorWake
  \/ \E outcome \in RemoveOutcomeNames : JanitorStep(outcome)

QuerySpec == CatInit /\ [][QueryNext]_vars

(***************************************************************************)
(* JanitorSpec: the cleanup thread over a catalogue of as many rows as one *)
(* cleanup selects, or twice as many.                                      *)
(***************************************************************************)
JanitorInit ==
  \E n \in { CleanupLimit, 2 * CleanupLimit } :
    CatInitOf(n, [ i \in 1..n |-> [ stream_id |-> "s1",
                                    objects |-> << Obj("person", 5) >> ] ], FALSE)

JanitorNext ==
  \/ JanitorWake
  \/ \E outcome \in RemoveOutcomeNames : JanitorStep(outcome)

JanitorSpec == JanitorInit /\ [][JanitorNext]_vars

(***************************************************************************)
(* RingSpec: the frame ring of one stream, for the configurations with     *)
(* pre_detection_buffer in 0..PreBuffer and fps in 0..Fps: register_stream *)
(* creates it and add_frame pushes frames of two kinds.                    *)
(***************************************************************************)
FrameKinds == {"a", "b"}

RingInit ==
  /\ InitButUnit
  /\ \E pre \in 0..PreBuffer, fps \in 0..Fps :
       unit = [ pre |-> pre, fps |-> fps, maxlen |-> MaxLen(pre, fps),
                buffer |-> << >>, pushed |-> << >> ]

\* add_frame, line 181: the append to the stream's deque
RingPush(x) ==
  /\ Len(unit.pushed) < MaxFrames
  /\ unit' = [ unit EXCEPT !.buffer = DequeAppend(@, x, unit.maxlen),
                           !.pushed = Append(@, x) ]
  /\ UNCHANGED << now, recorderVars, db_conn, running, stop_pc, hd, cap_seq,
                  detectorVars, callVars, jan, stop_all_pc, stop_all_runs, api_log >>

RingNext == \E x \in FrameKinds : RingPush(x)

RingSpec == RingInit /\ [][RingNext]_vars

(***************************************************************************)
(* RaceSpec: the recorder of Spec (a detector restarted under the same id  *)
(* registers its stream again) over the catalogue of an earlier run, with  *)
(* the cleanup thread.                                                     *)
(***************************************************************************)
RaceInit ==
  \E n \in {MaxRows} :
    CatInitOf(n, [ i \in 1..n |-> [ stream_id |-> "s1",
                                    objects |-> << Obj("person", 5) >> ] ], FALSE)

RaceNext ==
  \/ Next
  \/ JanitorWake
  \/ \E outcome \in RemoveOutcomeNames : JanitorStep(outcome)

RaceSpec == RaceInit /\ [][RaceNext]_vars

(***************************************************************************)
(* LifeSpec: a stream registered once and recording over the catalogue of  *)
(* an earlier run, with the cleanup thread and one delete_recording call.  *)
(***************************************************************************)
LifeInit ==
  \E n \in {MaxRows} :
    CatInitOf(n, [ i \in 1..n |-> [ stream_id |-> "s1",
                                    objects |-> << Obj("person", 5) >> ] ], FALSE)

LifeNext ==
  \/ Tick
  \/ \E s \in Streams, name \in Names :
       s \notin DOMAIN frame_buffers /\ RegisterStream(s, name)
  \/ \E s \in Streams, objects \in TimingEvents : HandleDetection(s, objects)
  \/ \E s \in Streams : HandleDetectionBody(s)
  \/ \E h \in DOMAIN timers : TimerExpire(h)
  \/ \E h \in DOMAIN timers, ok \in BOOLEAN : CheckRecordingStatus(h, ok)
  \/ JanitorWake
  \/ \E outcome \in RemoveOutcomeNames : JanitorStep(outcome)
  \/ \E id \in 1..(row_seq + 1), outcome \in RemoveOutcomeNames :
       api_log.ncalls = 0 /\ DeleteRecording(id, outcome)

LifeSpec == LifeInit /\ [][LifeNext]_vars

(***************************************************************************)
(* LoopSpec: the two threads of one RTSPObjectDetector against the clock.  *)
(* unit holds the detector: the running flag, the capture device, the      *)
(* frame queue, the published frame and detections, and the position of    *)
(* the capture thread (cpc), of the processing thread (ppc) and of a       *)
(* caller inside stop() (spc).  Sleeps and timeouts last what the code     *)
(* passes to them; a connect, a read and an inference each return within   *)
(* MaxOpTime seconds.  The clock advances only when every thread is        *)
(* sleeping or blocked.                                                    *)
(***************************************************************************)
ReconnectInterval == 5
JoinTimeout == 2
ReadRetrySleep == 1
GetTimeout == 1

InferenceResults == { << >>, << Obj("person", 5) >> }

\* latest_frame = None
NoFrame == [ frame |-> 0, annotated |-> FALSE ]

LoopInit ==
  /\ InitButUnit
  /\ unit = [ running |-> TRUE, stopped_at |-> -1,
              cap |-> "none", cpc |-> "top", cdue |-> 0, last_open |-> -1,
              queue |-> << >>, nframes |-> 0,
              ppc |-> "top", pdue |-> 0, frame |-> 0,
              latest_frame |-> NoFrame, detections |-> << >>,
              failed |-> 0, processed |-> 0,
              spc |-> "idle", sdue |-> 0 ]

LoopUnchanged ==
  UNCHANGED << recorderVars, db_conn, running, stop_pc, hd, cap_seq,
               detectorVars, callVars, jan, stop_all_pc, stop_all_runs, api_log >>

\* _capture_loop: the loop condition, then the check of the capture device
CaptureTop ==
  /\ unit.cpc = "top"
  /\ unit' = IF ~unit.running
               THEN [ unit EXCEPT !.cpc = "exited" ]
             ELSE IF unit.cap # "open"
               THEN [ unit EXCEPT !.cpc = "connect", !.cdue = now + MaxOpTime,
                                  !.last_open = now ]
             ELSE [ unit EXCEPT !.cpc = "read", !.cdue = now + MaxOpTime ]
  /\ now' = now
  /\ LoopUnchanged

\* _connect_to_stream called from the top of the loop
CaptureConnect(ok) ==
  /\ unit.cpc = "connect"
  /\ unit' = IF ok
               THEN [ unit EXCEPT !.cap = "open", !.cpc = "read",
                                  !.cdue = now + MaxOpTime ]
               ELSE [ unit EXCEPT !.cap = "closed", !.cpc = "sleep_reconnect",
                                  !.cdue = now + ReconnectInterval ]
  /\ now' = now
  /\ LoopUnchanged

CaptureReconnectWakeGivesUp ==
  /\ unit.cpc = "sleep_reconnect"
  /\ now >= unit.cdue
  /\ unit' = [ unit EXCEPT !.cpc = "exited" ]
  /\ now' = now
  /\ LoopUnchanged

\* time.sleep(self.reconnect_interval) returns
CaptureReconnectWake ==
  /\ unit.cpc = "sleep_reconnect"
  /\ now >= unit.cdue
  /\ unit' = [ unit EXCEPT !.cpc = "top" ]
  /\ now' = now
  /\ LoopUnchanged

\* self.cap.read() and the rest of the pass; a device stop() has dropped
\* raises in the thread, a released one returns no frame
CaptureRead(ret) ==
  /\ unit.cpc = "read"
  /\ ret => (unit.cap = "open" /\ unit.nframes < MaxFrames)
  /\ unit' = IF unit.cap = "none"
               THEN [ unit EXCEPT !.cpc = "exited" ]
             ELSE IF ~ret
               THEN [ unit EXCEPT !.cpc = "sleep_read",
                                  !.cdue = now + ReadRetrySleep ]
             ELSE [ unit EXCEPT !.cpc = "top",
                                !.nframes = @ + 1,
                                !.queue = QueuePut(@, unit.nframes + 1) ]
  /\ now' = now
  /\ LoopUnchanged

\* time.sleep(1) returns and _connect_to_stream is called
CaptureRetryWake ==
  /\ unit.cpc = "sleep_read"
  /\ now >= unit.cdue
  /\ unit' = [ unit EXCEPT !.cpc = "reconnect", !.cdue = now + MaxOpTime,
                           !.last_open = now ]
  /\ now' = now
  /\ LoopUnchanged

\* _connect_to_stream called after a failed read; its result is not used
CaptureReconnect(ok) ==
  /\ unit.cpc = "reconnect"
  /\ unit' = [ unit EXCEPT !.cap = IF ok THEN "open" ELSE "closed",
                           !.cpc = "top" ]
  /\ now' = now
  /\ LoopUnchanged

\* _processing_loop: the loop condition, then frame_buffer.get(timeout=1.0)
ProcessingTop ==
  /\ unit.ppc = "top"
  /\ unit' = IF ~unit.running
               THEN [ unit EXCEPT !.ppc = "exited" ]
               ELSE [ unit EXCEPT !.ppc = "get", !.pdue = now + GetTimeout ]
  /\ now' = now
  /\ LoopUnchanged

ProcessingGet ==
  /\ unit.ppc = "get"
  /\ unit.queue # << >>
  /\ unit' = [ unit EXCEPT !.ppc = "infer", !.pdue = now + MaxOpTime,
                           !.frame = Head(unit.queue),
                           !.queue = Tail(@) ]
  /\ now' = now
  /\ LoopUnchanged

\* queue.Empty
ProcessingGetTimeout ==
  /\ unit.ppc = "get"
  /\ unit.queue = << >>
  /\ now >= unit.pdue
  /\ unit' = [ unit EXCEPT !.ppc = "top" ]
  /\ now' = now
  /\ LoopUnchanged

\* self.model(frame), _process_results and the two assignments; or an
\* exception from any of them, logged, followed by time.sleep(0.1)
ProcessingInfer(ok, detections) ==
  /\ unit.ppc = "infer"
  /\ unit' = IF ok
               THEN [ unit EXCEPT !.ppc = "top",
                                  !.latest_frame = [ frame |-> unit.frame,
                                                     annotated |-> TRUE ],
                                  !.detections = detections,
                                  !.processed = unit.frame ]
               ELSE [ unit EXCEPT !.ppc = "top", !.failed = unit.frame ]
  /\ now' = now
  /\ LoopUnchanged

\* stop(): the flag, the queue drained, then the first join
DetectorStopBegin ==
  /\ unit.spc = "idle"
  /\ unit' = [ unit EXCEPT !.running = FALSE, !.stopped_at = now,
                           !.queue = << >>,
                           !.spc = "join_capture", !.sdue = now + JoinTimeout ]
  /\ now' = now
  /\ LoopUnchanged

\* capture_thread.join(timeout=2.0) returns
DetectorStopJoinCapture ==
  /\ unit.spc = "join_capture"
  /\ unit.cpc = "exited" \/ now >= unit.sdue
  /\ unit' = [ unit EXCEPT !.spc = "join_processing",
                           !.sdue = now + JoinTimeout ]
  /\ now' = now
  /\ LoopUnchanged

\* processing_thread.join(timeout=2.0) returns; the device is released and
\* the published state reset
DetectorStopEnd ==
  /\ unit.spc = "join_processing"
  /\ unit.ppc = "exited" \/ now >= unit.sdue
  /\ unit' = [ unit EXCEPT !.spc = "done",
                           !.cap = "none",
                           !.latest_frame = NoFrame, !.detections = << >> ]
  /\ now' = now
  /\ LoopUnchanged

CaptureBlocked ==
  \/ unit.cpc = "exited"
  \/ unit.cpc \in {"sleep_reconnect", "sleep_read"} /\ now < unit.cdue
  \/ unit.cpc \in {"connect", "read", "reconnect"} /\ now < unit.cdue

ProcessingBlocked ==
  \/ unit.ppc = "exited"
  \/ unit.ppc = "get" /\ unit.queue = << >> /\ now < unit.pdue
  \/ unit.ppc = "infer" /\ now < unit.pdue

StopBlocked ==
  \/ unit.spc \in {"idle", "done"}
  \/ unit.spc = "join_capture" /\ unit.cpc # "exited" /\ now < unit.sdue
  \/ unit.spc = "join_processing" /\ unit.ppc # "exited" /\ now < unit.sdue

LoopTick ==
  /\ now < MaxTime
  /\ CaptureBlocked /\ ProcessingBlocked /\ StopBlocked
  /\ now' = now + 1
  /\ UNCHANGED unit
  /\ LoopUnchanged

LoopNext ==
  \/ LoopTick
  \/ CaptureTop
  \/ \E ok \in BOOLEAN : CaptureConnect(ok)
  \/ CaptureReconnectWake
  \/ \E ret \in BOOLEAN : CaptureRead(ret)
  \/ CaptureRetryWake
  \/ \E ok \in BOOLEAN : CaptureReconnect(ok)
  \/ ProcessingTop
  \/ ProcessingGet
  \/ ProcessingGetTimeout
  \/ \E ok \in BOOLEAN, detections \in InferenceResults :
       ProcessingInfer(ok, detections)
  \/ DetectorStopBegin
  \/ DetectorStopJoinCapture
  \/ DetectorStopEnd

LoopSpec == LoopInit /\ [][LoopNext]_vars

(***************************************************************************)
(* FilterSpec: RTSPObjectDetector._apply_filters applied once to a list of *)
(* detections under a configuration.  A detection is the class id and the  *)
(* box the model reported; the area of a box is width times height.        *)
(***************************************************************************)
\* result.names of the loaded model
ClassNamesOfModel == [ class_id \in 0..1 |-> IF class_id = 0 THEN "person" ELSE "car" ]

\* names a configuration may list; "unicorn" is no class of the model
FilterClassNames == {"person", "car", "unicorn"}

Boxes == [ class_id : DOMAIN ClassNamesOfModel, w : 1..MaxSide, h : 1..MaxSide ]

BoxLists == UNION { [ 1..n -> Boxes ] : n \in 0..MaxBoxes }

\* sv.Detections.area
Area(d) == d.w * d.h

\* the three fields of DetectorConfig the filter reads; an unset area is {}
FilterConfigs ==
  [ filter_classes : SUBSET FilterClassNames,
    min_detection_area : { {} } \cup { {a} : a \in {MaxSide} },
    max_detection_area : { {} } \cup { {a} : a \in {MaxSide} } ]

AllowedClassIds(class_names, config) ==
  { class_id \in DOMAIN class_names : class_names[class_id] \in config.filter_classes }

FilterByClass(detections, class_names, config) ==
  IF config.filter_classes # {} /\ AllowedClassIds(class_names, config) # {}
    THEN SelectSeq(detections,
                   LAMBDA d : d.class_id \in AllowedClassIds(class_names, config))
    ELSE detections

FilterByMinArea(detections, config) ==
  IF config.min_detection_area # {}
    THEN SelectSeq(detections,
                   LAMBDA d : \A a \in config.min_detection_area : Area(d) > a)
    ELSE detections

FilterByMaxArea(detections, config) ==
  IF config.max_detection_area # {}
    THEN SelectSeq(detections,
                   LAMBDA d : \A a \in config.max_detection_area : Area(d) < a)
    ELSE detections

ApplyFilters(detections, class_names, config) ==
  IF Len(detections) = 0
    THEN detections
    ELSE FilterByMaxArea(
           FilterByMinArea(FilterByClass(detections, class_names, config), config),
           config)

FilterInit ==
  /\ InitButUnit
  /\ \E detections \in BoxLists, config \in FilterConfigs :
       unit = [ detections |-> detections, config |-> config,
                done |-> FALSE, out |-> << >> ]

FilterApply ==
  /\ ~unit.done
  /\ unit' = [ unit EXCEPT !.done = TRUE,
                           !.out = ApplyFilters(unit.detections, ClassNamesOfModel,
                                                unit.config) ]
  /\ UNCHANGED << now, recorderVars, db_conn, running, stop_pc, hd, cap_seq,
                  detectorVars, callVars, jan, stop_all_pc, stop_all_runs, api_log >>

FilterNext == FilterApply

FilterSpec == FilterInit /\ [][FilterNext]_vars

(***************************************************************************)
(* WriterSpec: the recorder of Spec when cv2.VideoWriter may fail to open  *)
(* its file.  The constructor does not raise: it returns a writer whose    *)
(* isOpened() is false, which creates no file and drops every frame        *)
(* written to it.                                                          *)
(***************************************************************************)
\* handle_detection, start of a new recording (lines 261-320), when the
\* writer created at line 278 did not open
StartRecordingUnopened(R, s, d, t) ==
  LET R1 == StartRecording(R, s, d, t)
      w  == Len(R1.wr)
      thumbnail_path == << R.fb[s].name, t, "thumb" >>
  IN [ R1 EXCEPT
         !.wr[w] = [ frames |-> << >>, open |-> FALSE, path |-> @.path ],
         !.files = (thumbnail_path :> NewFile(t)) @@ R.files ]

\* the body of handle_detection for a call that starts a recording whose
\* writer does not open
HandleDetectionBodyUnopened(s) ==
  /\ s \in DOMAIN hd
  /\ WouldStart(s, hd[s])
  /\ Len(writers) < MaxRecordings
  /\ TimerSlotFree(Cur)
  /\ Set(StartRecordingUnopened(
           [ Cur EXCEPT !.fb[s].last_detection_time = hd[s].t ], s, hd[s], now))
  /\ hd' = Without(hd, s)
  /\ UNCHANGED << now, db_conn, running, stop_pc, cap_seq, detectorVars, callVars, auxVars >>

WriterNext ==
  \/ Next
  \/ \E s \in Streams : HandleDetectionBodyUnopened(s)

WriterSpec == Init /\ [][WriterNext]_vars

(***************************************************************************)
(* CooldownSpec: the recorder of Spec with a record of the cooldown timers *)
(* that had already expired, their callback still waiting for the lock,    *)
(* when a detection was handled on their stream.  unit.hit maps such a     *)
(* timer to the time of the detection that extended its recording;         *)
(* unit.stale holds the expired timers on which cancel() was called.       *)
(***************************************************************************)
CooldownInit ==
  /\ InitButUnit
  /\ unit = [ hit |-> << >>, stale |-> {} ]

\* expired timers of stream s whose callback has not run and whose
\* recording is in active_recordings with its writer open
FiredTimers(s) ==
  { h \in DOMAIN timers :
      /\ timers[h].st = "fired"
      /\ timers[h].stream = s
      /\ \E i \in 1..Len(active_recordings) :
           /\ active_recordings[i].id = timers[h].rec
           /\ writers[active_recordings[i].writer].open }

\* the recording handle_detection extends on stream s (<< >>: none)
ExtendedRecording(s) ==
  IF s \in DOMAIN frame_buffers /\ frame_buffers[s].recording_in_progress
       /\ FirstForStream(active_recordings, s) # 0
    THEN active_recordings[FirstForStream(active_recordings, s)].id
    ELSE << >>

\* handle_detection under the lock, as HandleDetectionBody
CooldownHandleDetectionBody(s) ==
  /\ s \in DOMAIN hd
  /\ WouldStart(s, hd[s]) => Len(writers) < MaxRecordings
  /\ TimerSlotFree(Cur)
  /\ Set(HandleDetectionOp(Cur, s, hd[s], now))
  /\ hd' = Without(hd, s)
  /\ unit' =
       IF ExtendedRecording(s) = << >> THEN unit
       ELSE [ hit |-> [ h \in FiredTimers(s) |-> hd[s].t ]
                        @@ unit.hit,
              stale |-> unit.stale
                          \cup ( FiredTimers(s)
                                   \cap { frame_buffers[s].cooldown_timer } ) ]
  /\ UNCHANGED << now, db_conn, running, stop_pc, cap_seq, detectorVars, callVars,
                  jan, stop_all_pc, stop_all_runs, api_log >>

\* the Timer thread runs _check_recording_status and ends, as
\* CheckRecordingStatus
CooldownCheckRecordingStatus(h, ok) ==
  /\ h \in DOMAIN timers
  /\ timers[h].st = "fired"
  /\ Set(CheckRecordingStatusOp([ Cur EXCEPT !.tm = Without(timers, h) ],
                                timers[h].stream, timers[h].rec, now,
                                ok /\ db_conn))
  /\ unit' = [ hit |-> Without(unit.hit, h), stale |-> unit.stale \ {h} ]
  /\ UNCHANGED << now, db_conn, running, stop_pc, hd, cap_seq, detectorVars, callVars,
                  jan, stop_all_pc, stop_all_runs, api_log >>

CooldownNext ==
  \/ Tick
  \/ \E s \in Streams, name \in Names : RegisterStream(s, name)
  \/ \E s \in Streams, objects \in TimingEvents : HandleDetection(s, objects)
  \/ \E s \in Streams : CooldownHandleDetectionBody(s)
  \/ \E h \in DOMAIN timers : TimerExpire(h)
  \/ \E h \in DOMAIN timers, ok \in BOOLEAN : CooldownCheckRecordingStatus(h, ok)

CooldownSpec == CooldownInit /\ [][CooldownNext]_vars

(***************************************************************************)
(* CleanupThreadSpec: RecordingManager.start and stop and the threads      *)
(* running _storage_cleanup_loop.  unit.threads lists every thread start() *)
(* has created, the last one being self.cleanup_thread.  A thread inside   *)
(* time.sleep(3600) may or may not wake during the 2 s stop() waits.       *)
(***************************************************************************)
CleanupThreadInit ==
  /\ InitButUnit
  /\ unit = [ running |-> FALSE, threads |-> << >>, stop_pc |-> "idle" ]

CleanupUnchanged ==
  UNCHANGED << now, recorderVars, db_conn, running, stop_pc, hd, cap_seq,
               detectorVars, callVars, jan, stop_all_pc, stop_all_runs, api_log >>

\* RecordingManager.start
ManagerStart ==
  /\ unit.stop_pc = "idle"
  /\ Len(unit.threads) < MaxStarts
  /\ unit' = IF unit.running THEN unit
             ELSE [ unit EXCEPT !.running = TRUE,
                                !.threads = Append(@, "top") ]
  /\ CleanupUnchanged

\* RecordingManager.stop up to the join
ManagerStopBegin ==
  /\ unit.stop_pc = "idle"
  /\ unit' = [ unit EXCEPT !.running = FALSE,
                           !.stop_pc = IF unit.threads # << >>
                                          /\ unit.threads[Len(unit.threads)] # "exited"
                                       THEN "join" ELSE "idle" ]
  /\ CleanupUnchanged

\* cleanup_thread.join(timeout=2.0) returns: the thread has ended, or it is
\* still asleep after 2 s; the rest of stop() follows
ManagerStopJoin ==
  /\ unit.stop_pc = "join"
  /\ unit.threads[Len(unit.threads)] \in {"exited", "sleep"}
  /\ unit' = [ unit EXCEPT !.stop_pc = "idle" ]
  /\ CleanupUnchanged

\* _storage_cleanup_loop: the loop condition
CleanupThreadTop(i) ==
  /\ i \in 1..Len(unit.threads)
  /\ unit.threads[i] = "top"
  /\ unit' = [ unit EXCEPT !.threads[i] = IF unit.running THEN "sleep" ELSE "exited" ]
  /\ CleanupUnchanged

\* time.sleep(3600) returns; the thread leaves if running is false and
\* otherwise checks the storage and goes round the loop
CleanupThreadWake(i) ==
  /\ i \in 1..Len(unit.threads)
  /\ unit.threads[i] = "sleep"
  /\ unit' = [ unit EXCEPT !.threads[i] = IF unit.running THEN "top" ELSE "exited" ]
  /\ CleanupUnchanged

CleanupThreadNext ==
  \/ ManagerStart
  \/ ManagerStopBegin
  \/ ManagerStopJoin
  \/ \E i \in 1..MaxStarts : CleanupThreadTop(i)
  \/ \E i \in 1..MaxStarts : CleanupThreadWake(i)

CleanupThreadSpec == CleanupThreadInit /\ [][CleanupThreadNext]_vars

(***************************************************************************)
(* IdSpec: the ids of DetectorManager, of its detectors and of the         *)
(* recorder.  unit.detectors is DetectorManager.detectors (key -> the      *)
(* detector's own detector_id), unit.registered the keys of the recorder's *)
(* frame_buffers, unit.rows the catalogue.                                 *)
(***************************************************************************)
\* str(uuid.uuid4()): the n-th id drawn differs from every other
Uuid4(n) == << "uuid", n >>

IdInit ==
  /\ InitButUnit
  /\ unit = [ uuids |-> 0, detectors |-> << >>, registered |-> {}, rows |-> {} ]

IdUnchanged ==
  UNCHANGED << now, recorderVars, db_conn, running, stop_pc, hd, cap_seq,
               detectorVars, callVars, jan, stop_all_pc, stop_all_runs, api_log >>

\* DetectorManager.add_detector: the manager draws its key, the detector
\* draws detector_id in __init__ and registers it in start()
AddDetector ==
  /\ unit.uuids + 2 <= 2 * MaxDetectors
  /\ LET key         == Uuid4(unit.uuids + 1)
         detector_id == Uuid4(unit.uuids + 2)
     IN unit' = [ unit EXCEPT !.uuids = @ + 2,
                              !.detectors = (key :> detector_id) @@ @,
                              !.registered = @ \cup { detector_id } ]
  /\ IdUnchanged

\* DetectorManager.remove_detector: detector.stop() unregisters the stream
RemoveDetector(key) ==
  /\ key \in DOMAIN unit.detectors
  /\ unit' = [ unit EXCEPT !.detectors = Without(@, key),
                           !.registered = @ \ { unit.detectors[key] } ]
  /\ IdUnchanged

\* a clip of the detector under `key`: _process_results calls
\* handle_detection(self.detector_id, ...) and the finalization inserts the
\* row with that stream_id
RecordClip(key) ==
  /\ key \in DOMAIN unit.detectors
  /\ unit.detectors[key] \in unit.registered
  /\ Cardinality(unit.rows) < MaxClips
  /\ unit' = [ unit EXCEPT
                 !.rows = @ \cup { [ id |-> Cardinality(unit.rows) + 1,
                                     timestamp |-> Cardinality(unit.rows) + 1,
                                     stream_id |-> unit.detectors[key],
                                     duration |-> 1,
                                     retained |-> 1 ] } ]
  /\ IdUnchanged

\* get_streams: recording_stats of every exposed stream
GetStreams ==
  [ key \in DOMAIN unit.detectors |-> GetStreamStats(unit.rows, key, TRUE) ]

IdNext ==
  \/ AddDetector
  \/ \E n \in 1..(2 * MaxDetectors) : RemoveDetector(Uuid4(n))
  \/ \E n \in 1..(2 * MaxDetectors) : RecordClip(Uuid4(n))

IdSpec == IdInit /\ [][IdNext]_vars

(***************************************************************************)
(* PathSpec: the recorder with two streams, each registered once.  Both    *)
(* detectors report the same name: get_name returns the last segment of    *)
(* the URL, or "camera" for every URL without credentials.                 *)
(***************************************************************************)
TwoStreams == {"s0", "s1"}

PathInit ==
  /\ now = StartTime
  /\ frame_buffers = << >>
  /\ active_recordings = << >>
  /\ writers = << >>
  /\ timers = << >>
  /\ rows = {}
  /\ row_seq = 0
  /\ db_conn = TRUE
  /\ running = FALSE
  /\ stop_pc = "idle"
  /\ hd = << >>
  /\ cap_seq = [ s \in TwoStreams |-> 0 ]
  /\ det_running = [ s \in TwoStreams |-> FALSE ]
  /\ frame_queue = [ s \in TwoStreams |-> << >> ]
  /\ proc = << >>
  /\ nreg = 0
  /\ ndet = 0
  /\ hist = << >>
  /\ lastq = [ s \in TwoStreams |-> 0 ]
  /\ npush = [ s \in TwoStreams |-> 0 ]
  /\ files = (DbPath :> NewFile(0))
  /\ jan = [ pc |-> "sleep", batch |-> << >>, ticks |-> 0, fails |-> 0 ]
  /\ stop_all_pc = "idle"
  /\ stop_all_runs = 0
  /\ api_log = [ ncalls |-> 0, called |-> {} ]
  /\ unit = << >>

PathNext ==
  \/ Tick
  \/ \E s \in TwoStreams, name \in Names :
       s \notin DOMAIN frame_buffers /\ RegisterStream(s, name)
  \/ \E s \in TwoStreams, objects \in TimingEvents : HandleDetection(s, objects)
  \/ \E s \in TwoStreams : HandleDetectionBody(s)
  \/ \E h \in DOMAIN timers : TimerExpire(h)
  \/ \E h \in DOMAIN timers, ok \in BOOLEAN : CheckRecordingStatus(h, ok)

PathSpec == PathInit /\ [][PathNext]_vars

(***************************************************************************)
(* Properties                                                              *)
(***************************************************************************)
\* entries of active_recordings of stream s whose writer is still open
LiveEntries(s) ==
  { i \in 1..Len(active_recordings) :
      /\ active_recordings[i].stream_id = s
      /\ writers[active_recordings[i].writer].open }

\* recording w is finalized: writer released, entry removed, row inserted
Finalized(w) ==
  /\ ~writers[w].open
  /\ \A i \in 1..Len(active_recordings) : active_recordings[i].writer # w
  /\ \E r \in rows : r.w = w

RowsOf(w) == { r \in rows : r.w = w }

\* C1: at every moment each stream has at most one live recording.
C1_SingleRecordingPerStream ==
  \A s \in Streams : Cardinality(LiveEntries(s)) <= 1

\* C2: a recording is never finalized less than post_detection_buffer
\* seconds after the last qualifying detection that started or extended a
\* recording on its stream.
C2_CooldownReset ==
  \A w \in DOMAIN hist :
    hist[w].tfin_gap # -1 => hist[w].tfin_gap >= PostBuffer

\* C3: every recording that became live is finalized once detections have
\* stopped: when no cooldown timer is pending and no handle_detection call
\* is in flight, so that nothing is left to run, no recording is left
\* unfinalized.
C3_EventuallyFinalized ==
  (DOMAIN timers = {} /\ DOMAIN hd = {} /\ stop_pc = "idle")
    => \A w \in DOMAIN writers : Finalized(w)

\* C4 as stated: two recordings of one stream never start less than 5
\* seconds apart.
C4_RateLimit ==
  \A i, j \in DOMAIN hist :
    (i < j /\ hist[i].stream = hist[j].stream)
      => hist[j].start - hist[i].start >= MinGap

C4_SameRegistrationGap ==
  \A i, j \in DOMAIN hist :
    (i < j /\ hist[i].stream = hist[j].stream /\ hist[i].current /\ hist[j].current)
      => hist[j].start - hist[i].start >= MinGap

C4_RateLimitedCreatesNothing ==
  \A s \in Streams :
    ( /\ s \in DOMAIN hd
      /\ s \notin DOMAIN hd'
      /\ s \in DOMAIN frame_buffers
      /\ ~frame_buffers[s].recording_in_progress
      /\ hd[s].t - frame_buffers[s].last_recording < MinGap )
    => /\ writers' = writers
       /\ active_recordings' = active_recordings
       /\ timers' = timers

\* C4, amended: two recordings of one stream started under the same
\* registration (no register_stream call for the stream in between) never
\* start less than 5 seconds apart, and a handle_detection call that finds
\* no recording in progress less than 5 seconds after the last start of the
\* current registration creates no recording, no file and no timer.
C4_RateLimitPerRegistration ==
  /\ []C4_SameRegistrationGap
  /\ [][C4_RateLimitedCreatesNothing]_vars

\* two recordings of one registration, the second MinGap or more after the
\* first
C4_Witness ==
  \E i, j \in DOMAIN hist :
    /\ i < j
    /\ hist[i].stream = hist[j].stream
    /\ hist[i].current /\ hist[j].current
    /\ hist[j].start - hist[i].start >= MinGap

\* C5: every finalized recording (writer released) has exactly one row in
\* the catalogue.
C5_ExactlyOneRow ==
  \A w \in DOMAIN writers : ~writers[w].open => Cardinality(RowsOf(w)) = 1

\* C6: the frames of a recording are written in non-decreasing capture
\* order, so every pre-roll frame was captured no later than the triggering
\* frame written after it.
C6_CaptureOrder ==
  \A w \in DOMAIN writers :
    \A i, j \in 1..Len(writers[w].frames) :
      i < j => writers[w].frames[i] <= writers[w].frames[j]

Min(a, b) == IF a <= b THEN a ELSE b

\* C7 as stated: the first min(ring_capacity, frame_count) frames written
\* to a recording's file are the stream's ring at the moment the recording
\* started, in order.
C7_RingPreRoll ==
  \A i \in 1..Len(active_recordings) :
    LET rec == active_recordings[i]
        n   == Min(BufferSize, rec.frame_count)
    IN /\ n <= Len(writers[rec.writer].frames)
       /\ SubSeq(writers[rec.writer].frames, 1, n) = hist[rec.writer].ring_at_start

\* C7, amended: the first k frames written to a recording's file, k being
\* the number of frames the ring held when the recording started (at most
\* ring_capacity), are those ring frames, oldest first, none skipped or
\* repeated.
C7_RingPreRollHeld ==
  \A w \in DOMAIN writers :
    LET k == Len(hist[w].ring_at_start) IN
      /\ k <= BufferSize
      /\ k < Len(writers[w].frames)
      /\ SubSeq(writers[w].frames, 1, k) = hist[w].ring_at_start

\* a recording started on a full ring that had already dropped its oldest
\* frame, with a frame appended after the triggering one
C7_Witness ==
  \E w \in DOMAIN writers :
    /\ Len(hist[w].ring_at_start) = BufferSize
    /\ hist[w].ring_at_start[1] > 1
    /\ Len(writers[w].frames) > BufferSize + 1

\* C8: with a non-empty record_objects list, a recording starts only on a
\* detection whose classes include one of the list.
C8_RecordObjectsFilter ==
  \A w \in DOMAIN hist : hist[w].trigger_classes \cap RecordObjects # {}

\* C9: the confidence of a recording's row is the maximum confidence over
\* the detections that started or extended the recording.
C9_RowConfidenceIsMax ==
  \A r \in rows : r.confidence = hist[r.w].max_conf

\* C10: objects_detected of a recording's row names every class of the
\* detections that started or extended the recording.
C10_RowObjectsCoverClasses ==
  \A r \in rows : hist[r.w].classes \subseteq JsonClasses(r.objects_detected)

\* C11 as stated: the frame_count of every finalized recording is at least
\* the ring capacity.
C11_FrameCountAtLeastRing ==
  \A w \in DOMAIN hist :
    hist[w].frame_count # -1 => hist[w].frame_count >= BufferSize

\* C11, amended: the frame_count of every finalized recording is at least
\* the number of frames the ring held when the recording started, which is
\* the smaller of the ring capacity and the number of frames pushed since
\* the stream was registered.
C11_FrameCountAtLeastHeld ==
  \A w \in DOMAIN hist :
    hist[w].frame_count # -1
      => hist[w].frame_count >= Min(BufferSize, hist[w].pushed)

\* a finalized recording started on a ring that had wrapped, with a frame
\* appended while it was live
C11_Witness ==
  \E w \in DOMAIN hist :
    /\ hist[w].pushed > BufferSize
    /\ hist[w].frame_count > BufferSize
    /\ Finalized(w)

\* C12: once unregister_stream(s) has returned, every recording of stream s
\* is finalized (writer released, entry removed, row inserted) and no
\* cooldown timer of the stream is left.
C12_UnregisterFinalizes ==
  \A s \in Streams :
    s \notin DOMAIN frame_buffers
      => /\ \A w \in DOMAIN hist : hist[w].stream = s => Finalized(w)
         /\ \A h \in DOMAIN timers : timers[h].stream # s

\* C13: once stop_all() has returned, active_recordings is empty and every
\* recording has a released writer and a catalogue row, from then on.
C13_ShutdownFinalizesAll ==
  (stop_all_runs >= 1 /\ stop_all_pc = "idle")
    => /\ active_recordings = << >>
       /\ \A w \in DOMAIN writers : ~writers[w].open /\ RowsOf(w) # {}

\* C14: the shutdown sequence is executed at most once, however many
\* signals are delivered.
C14_ShutdownOnce == stop_all_runs <= 1

\* C15: after delete_recording(id) has been called, get_recording_by_id(id)
\* finds nothing and the two files the row named are gone; a later
\* delete_recording(id) returns False.
C15_DeleteRemoves ==
  /\ \A c \in api_log.called :
       /\ GetRecordingById(rows, c.id, db_conn) = {}
       /\ c.found => c.file_path \notin DOMAIN files /\ c.thumbnail_path \notin DOMAIN files
  /\ \A c, d \in api_log.called : (c.id = d.id /\ c.n < d.n) => ~d.ret

\* the arguments the queries are called with
QueryFilters ==
  [ stream_id : { {}, {"s1"} }, start_date : { {}, {StartTime - 1} }, end_date : { {}, {StartTime - 2} },
    object_type : { {}, {"car"} }, min_confidence : { {}, {6} } ]
AlertFilters ==
  [ start_date : { {}, {StartTime - 1} }, end_date : { {}, {StartTime - 2} },
    object_type : { {}, {"car"} }, min_confidence : { 5, 9 } ]
QuerySorts == {"timestamp", "confidence", "duration", "name"}
QueryOrders == {"asc", "desc"}
QueryLimits == {1, 100}
QueryOffsets == {0, 1}
RetainedIds == { r.id : r \in Retained(rows) }
SeqIds(seq) == { seq[i].id : i \in 1..Len(seq) }

\* C16: every catalogue query answers from the retained rows alone: its
\* answer is the one it gives on the catalogue without the retained=0 rows,
\* and every row it lists has retained=1, for every filter.
C16_RetainedOnly ==
  /\ \A f \in QueryFilters :
       /\ GetRecordingsCount(rows, f, db_conn) = GetRecordingsCount(Retained(rows), f, db_conn)
       /\ GetObjectStats(rows, f, db_conn) = GetObjectStats(Retained(rows), f, db_conn)
       /\ GetTimeStats(rows, f.object_type, 7, f.stream_id, now, db_conn)
            = GetTimeStats(Retained(rows), f.object_type, 7, f.stream_id, now, db_conn)
       /\ \A limit \in QueryLimits, offset \in QueryOffsets :
            /\ \A sort_by \in QuerySorts, sort_order \in QueryOrders :
                 LET res == GetRecordings(rows, f, sort_by, sort_order, limit, offset, db_conn)
                 IN /\ res = GetRecordings(Retained(rows), f, sort_by, sort_order,
                                           limit, offset, db_conn)
                    /\ \A i \in 1..Len(res) : res[i].retained = 1
            /\ LET res == ManagerGetRecordings(rows, f, limit, offset, db_conn)
               IN /\ res = ManagerGetRecordings(Retained(rows), f, limit, offset, db_conn)
                  /\ \A i \in 1..Len(res) : res[i].retained = 1
  /\ \A f \in AlertFilters :
       /\ GetAlertsCount(rows, f, db_conn) = GetAlertsCount(Retained(rows), f, db_conn)
       /\ \A limit \in QueryLimits, offset \in QueryOffsets :
            LET res == GetAlerts(rows, f, limit, offset, db_conn)
            IN /\ res = GetAlerts(Retained(rows), f, limit, offset, db_conn)
               /\ SeqIds(res) \subseteq RetainedIds
  /\ \A id \in 1..row_seq :
       LET res == GetRecordingById(rows, id, db_conn)
       IN /\ res = GetRecordingById(Retained(rows), id, db_conn)
          /\ \A r \in res : r.retained = 1
  /\ \A s \in {"s0", "s1"} :
       GetStreamStats(rows, s, db_conn) = GetStreamStats(Retained(rows), s, db_conn)

\* the cleanup has evicted a row of a stream that still has a retained one,
\* and the queries have something to answer
C16_Witness ==
  /\ \E r, q \in rows : r.retained = 0 /\ q.retained = 1 /\ r.stream_id = q.stream_id
  /\ \E f \in QueryFilters : f.stream_id # {} /\ GetRecordingsCount(rows, f, db_conn) >= 1
  /\ \E s \in {"s0", "s1"} : GetStreamStats(rows, s, db_conn).recording_count >= 1

RowIds(rs) == { r.id : r \in rs }

\* the step finalizes a live recording whose fields the new row r carries
CreatedByFinalization(r) ==
  \E i \in 1..Len(active_recordings) :
    LET rec == active_recordings[i]
    IN /\ rec.writer = r.w
       /\ rec.file_path = r.file_path /\ rec.thumbnail_path = r.thumbnail_path
       /\ rec.stream_id = r.stream_id /\ rec.start_time = r.timestamp
       /\ ARIndex(active_recordings', rec.id) = 0
       /\ ~writers'[r.w].open

\* the step is the cleanup loop's pass over the row with this id
EvictedByJanitor(id) ==
  jan.pc = "clean" /\ Head(jan.batch).id = id /\ jan' # jan

\* the step is a delete_recording(id) call that returns True
RemovedByDelete(id) ==
  /\ api_log'.ncalls = api_log.ncalls + 1
  /\ \E c \in api_log'.called \ api_log.called : c.id = id /\ c.ret

\* C17: a row appears only in a step that finalizes a recording, and with
\* retained=1; the only change to a row is retained going from 1 to 0 in a
\* pass of the cleanup loop over that row; a row disappears only in a
\* delete_recording call on its id that returns True.
C17_RowLifecycle ==
  [][ /\ \A r \in rows' : r.id \notin RowIds(rows) =>
           r.retained = 1 /\ CreatedByFinalization(r)
      /\ \A r \in rows : \A q \in rows' : (q.id = r.id /\ q # r) =>
           /\ r.retained = 1
           /\ q = [ r EXCEPT !.retained = 0 ]
           /\ EvictedByJanitor(r.id)
      /\ \A r \in rows : r.id \notin RowIds(rows') => RemovedByDelete(r.id)
    ]_vars

\* a recording of this run was finalized into a row, the cleanup evicted
\* that row, and a delete_recording call removed a row
C17_Witness ==
  /\ \E r \in rows : r.w >= 1 /\ r.retained = 0
  /\ \E c \in api_log.called : c.ret /\ c.id \notin RowIds(rows)

\* a tick of the cleanup thread has completed
TickCompleted == jan.pc = "sleep" /\ jan.ticks >= 1

\* C18: after a completed tick of the cleanup thread the files under
\* recordings_dir total at most max_storage_bytes, or fewer than 20 retained
\* rows remain.
C18_JanitorBound ==
  TickCompleted =>
    \/ TotalSize(files) <= MaxStorage
    \/ Cardinality(Retained(rows)) < CleanupLimit

\* C19: after a tick of the cleanup thread every evicted row (retained=0)
\* has neither of its files on disk, and no retained row is older than an
\* evicted one.
C19_OldestFirstComplete ==
  TickCompleted =>
    \A e \in rows : e.retained = 0 =>
      /\ e.file_path \notin DOMAIN files
      /\ e.thumbnail_path \notin DOMAIN files
      /\ \A r \in Retained(rows) : r.timestamp >= e.timestamp

\* the paths the retained rows name, and those of the live recordings
ReferencedPaths ==
  UNION { { r.file_path, r.thumbnail_path } : r \in Retained(rows) }
LivePaths ==
  UNION { { active_recordings[i].file_path, active_recordings[i].thumbnail_path } :
            i \in 1..Len(active_recordings) }

\* a file under recordings_dir, other than the database, that no retained
\* row names, that belongs to no live recording and is older than 10 minutes
OldOrphans ==
  { p \in DOMAIN files :
      /\ p # DbPath
      /\ p \notin ReferencedPaths
      /\ p \notin LivePaths
      /\ now - files[p].mtime > OrphanAge }

\* C20: the cleanup thread deletes every old orphan: once it has completed
\* all the ticks it makes (MaxTicks), none is left.
C20_OrphansSwept ==
  (jan.pc = "sleep" /\ jan.ticks = MaxTicks) => OldOrphans = {}

\* the files of the recordings in active_recordings whose writer is open
LiveOpenPaths ==
  UNION { { active_recordings[i].file_path, active_recordings[i].thumbnail_path } :
            i \in { j \in 1..Len(active_recordings) :
                      writers[active_recordings[j].writer].open } }

\* C21: a pass of the cleanup loop removes no file that is the video or the
\* thumbnail of a recording live at that moment.
C21_JanitorSparesLive ==
  [][ (jan.pc = "clean" /\ jan' # jan) =>
        \A p \in (DOMAIN files) \ (DOMAIN files') : p \notin LiveOpenPaths ]_vars

\* the object_type values a caller passes
ObjectTypes == {"person", "car", "Person", "class"}

\* the retained rows whose objects_detected holds a detection of class X
RowsWithClass(X) ==
  { r \in Retained(rows) : X \in ClassNames(JsonLoads(r.objects_detected)) }

RECURSIVE SumCounts(_, _)
SumCounts(f, keys) ==
  IF keys = {} THEN 0
  ELSE LET k == CHOOSE x \in keys : TRUE IN f[k] + SumCounts(f, keys \ {k})

\* the filters that only name an object type
OnlyObjectType(X) ==
  [ stream_id |-> {}, start_date |-> {}, end_date |-> {}, object_type |-> {X},
    min_confidence |-> {} ]
AlertsOfObjectType(X) ==
  [ start_date |-> {}, end_date |-> {}, object_type |-> {X}, min_confidence |-> 0 ]

\* C22: with object_type = X the list, the count, the alerts and their
\* count select exactly the retained rows that hold a detection of class X,
\* and get_time_stats counts as many rows.
C22_ObjectFilter ==
  \A X \in ObjectTypes :
    /\ SeqIds(GetRecordings(rows, OnlyObjectType(X), "timestamp", "desc", 100, 0, db_conn))
         = RowIds(RowsWithClass(X))
    /\ GetRecordingsCount(rows, OnlyObjectType(X), db_conn) = Cardinality(RowsWithClass(X))
    /\ SeqIds(GetAlerts(rows, AlertsOfObjectType(X), 100, 0, db_conn))
         = RowIds(RowsWithClass(X))
    /\ GetAlertsCount(rows, AlertsOfObjectType(X), db_conn) = Cardinality(RowsWithClass(X))
    /\ SumCounts(GetTimeStats(rows, {X}, 7, {}, now, db_conn).hours, 0..23)
         = Cardinality(RowsWithClass(X))

\* the filters of get_object_stats
StatFilters ==
  [ stream_id : { {}, {"s1"} }, start_date : { {}, {StartTime - 1} },
    end_date : { {}, {StartTime - 2} } ]

\* the retained rows a filter of get_object_stats matches
StatRows(f) ==
  { r \in Retained(rows) :
      /\ f.stream_id # {} => r.stream_id \in f.stream_id
      /\ f.start_date # {} => \A v \in f.start_date : r.timestamp >= v
      /\ f.end_date # {} => \A v \in f.end_date : r.timestamp <= v }

\* the detections of class c in a row
DetectionsOf(r, c) ==
  { i \in 1..Len(r.objects_detected) : r.objects_detected[i][3] = c }

\* C23: get_object_stats counts a class once per matching retained row that
\* holds at least one detection of it, however many it holds; classes no
\* matching row holds are not listed; total_recordings is the number of
\* matching retained rows.
C23_CountOnce ==
  \A f \in StatFilters :
    LET stats == GetObjectStats(rows, f, db_conn)
    IN /\ stats.total_recordings = Cardinality(StatRows(f))
       /\ \A c \in Classes :
            LET holders == { r \in StatRows(f) : DetectionsOf(r, c) # {} }
            IN IF holders = {} THEN c \notin DOMAIN stats.object_counts
               ELSE /\ c \in DOMAIN stats.object_counts
                    /\ stats.object_counts[c] = Cardinality(holders)
       /\ DOMAIN stats.object_counts \subseteq Classes

\* a retained row holds two detections of one class, another row was
\* evicted, and the class is counted
C23_Witness ==
  /\ \E r \in Retained(rows), c \in Classes : Cardinality(DetectionsOf(r, c)) >= 2
  /\ \E r \in rows : r.retained = 0
  /\ \E f \in StatFilters :
       "person" \in DOMAIN GetObjectStats(rows, f, db_conn).object_counts

\* the last k elements of a sequence
LastOf(seq, k) == SubSeq(seq, Len(seq) - k + 1, Len(seq))

\* C24 as stated: the ring has capacity max(1, pre_detection_buffer * fps)
\* and holds the last min(n, capacity) frames pushed, in push order.
C24_RingCapacityAtLeastOne ==
  LET capacity == IF unit.pre * unit.fps > 1 THEN unit.pre * unit.fps ELSE 1
  IN unit.buffer = LastOf(unit.pushed, Min(Len(unit.pushed), capacity))

\* C24, amended: the ring has capacity pre_detection_buffer * fps, 0
\* included, and holds the last min(n, capacity) frames pushed, in push
\* order.
C24_RingHoldsLast ==
  LET capacity == unit.pre * unit.fps
  IN unit.buffer = LastOf(unit.pushed, Min(Len(unit.pushed), capacity))

\* a push on a full ring of capacity 1 or more has dropped the oldest frame
C24_Witness ==
  /\ unit.pre * unit.fps >= 1
  /\ Len(unit.pushed) > unit.pre * unit.fps
  /\ Len(unit.buffer) = unit.pre * unit.fps
  /\ unit.buffer[1] # unit.pushed[1]

\* C25: once stop() has cleared the running flag, the capture thread and the
\* processing thread have both left their loops two seconds later, whatever
\* they were doing when the flag was cleared.
C25_ThreadsExitInTwoSeconds ==
  (unit.stopped_at # -1 /\ now - unit.stopped_at > JoinTimeout)
    => (unit.cpc = "exited" /\ unit.ppc = "exited")

C27_FailedFramePublished ==
  (unit.spc = "idle" /\ unit.failed # 0 /\ unit.processed < unit.failed)
    => /\ unit.cpc # "exited" /\ unit.ppc # "exited"
       /\ unit.latest_frame = [ frame |-> unit.failed, annotated |-> FALSE ]
       /\ unit.detections = << >>


\* the filter the claim states: class listed (or no list), area within the
\* closed interval of the configured limits
ReferenceKeeps(d, config) ==
  /\ config.filter_classes = {} \/ ClassNamesOfModel[d.class_id] \in config.filter_classes
  /\ \A a \in config.min_detection_area : Area(d) >= a
  /\ \A a \in config.max_detection_area : Area(d) <= a

\* C28: for every list of detections and every configuration the detector
\* keeps exactly the detections whose class is listed (or any class when the
\* list is empty) and whose area is at least min_area and at most max_area;
\* a list naming no class of the model keeps nothing.
C28_FilterEqualsReference ==
  unit.done =>
    unit.out = SelectSeq(unit.detections, LAMBDA d : ReferenceKeeps(d, unit.config))

\* entries of active_recordings that were finalized without a row: the
\* INSERT of _finalize_recording failed
FailedInserts ==
  { i \in 1..Len(active_recordings) : ~writers[active_recordings[i].writer].open }

\* C29: when the INSERT of a finalization fails the clip stays on disk, a
\* retry of the insert is scheduled, and until it succeeds add_frame counts
\* no frame into the recording.
C29_FailedInsertHandled ==
  \A i \in FailedInserts :
    LET rec == active_recordings[i] IN
    /\ rec.file_path \in DOMAIN files
    /\ \E h \in DOMAIN timers : timers[h].rec = rec.id
    /\ rec.frame_count = hist[rec.writer].frame_count

\* a step of handle_detection that created a writer which did not open
WriterOpenFailed ==
  /\ Len(writers') = Len(writers) + 1
  /\ ~writers'[Len(writers')].open

\* C30: when the writer of a new recording cannot be opened the event is
\* abandoned: no recording is added, recording_in_progress and
\* last_recording of the stream keep their values, no cooldown timer is
\* started, and no file and no row is created.
C30_WriterFailureAbandons ==
  [][ WriterOpenFailed =>
        /\ active_recordings' = active_recordings
        /\ \A s \in DOMAIN frame_buffers :
             /\ frame_buffers'[s].recording_in_progress
                  = frame_buffers[s].recording_in_progress
             /\ frame_buffers'[s].last_recording = frame_buffers[s].last_recording
        /\ timers' = timers
        /\ DOMAIN files' = DOMAIN files
        /\ rows' = rows ]_vars

\* the callback of the expired timer h runs in this step: the Timer object
\* is gone, or its handle already names a timer started by the callback
CallbackReturns(h) ==
  /\ h \in DOMAIN timers
  /\ timers[h].st = "fired"
  /\ h \notin DOMAIN timers' \/ timers'[h].st = "waiting"

\* recording id is in active_recordings with its writer open
LiveAfter(id) ==
  /\ ARIndex(active_recordings', id) # 0
  /\ writers'[active_recordings'[ARIndex(active_recordings', id)].writer].open

\* C31: a detection handled after a cooldown timer expired and before its
\* callback took the lock wins: the callback finalizes nothing, and when it
\* returns the recording is live with a timer pending that fires no earlier
\* than post_detection_buffer after that detection.
C31_DetectionBeatsCallback ==
  [][ \A h \in DOMAIN unit.hit :
        CallbackReturns(h) =>
          /\ LiveAfter(timers[h].rec)
          /\ rows' = rows
          /\ \E g \in DOMAIN timers' :
               /\ timers'[g].rec = timers[h].rec
               /\ timers'[g].st = "waiting"
               /\ timers'[g].deadline >= unit.hit[h] + PostBuffer ]_vars

\* C32: the callback of a timer that was cancelled by a newer detection
\* after it had expired is a no-op: it finalizes nothing, starts and cancels
\* no timer and leaves the recorder's state as it was.
C32_StaleCallbackNoOp ==
  [][ \A h \in unit.stale :
        CallbackReturns(h) =>
          /\ active_recordings' = active_recordings
          /\ frame_buffers' = frame_buffers
          /\ writers' = writers
          /\ rows' = rows
          /\ files' = files
          /\ timers' = Without(timers, h) ]_vars

\* the callback of timer h finds its stream and recording and less than
\* post_detection_buffer since the recording's last detection
FindsRecentDetection(h) ==
  /\ timers[h].st = "fired"
  /\ timers[h].stream \in DOMAIN frame_buffers
  /\ ARIndex(active_recordings, timers[h].rec) # 0
  /\ now - active_recordings[ARIndex(active_recordings, timers[h].rec)].last_detection_time
       < PostBuffer

\* C33: a callback that finds idle < post_detection_buffer re-arms the
\* timer for last_detection_time + post_detection_buffer, so the re-arm
\* does not postpone the finalization of the clip.
C33_RearmAtLastDetection ==
  [][ \A h \in DOMAIN timers :
        (CallbackReturns(h) /\ FindsRecentDetection(h)) =>
          LET s   == timers[h].stream
              rec == active_recordings[ARIndex(active_recordings, timers[h].rec)]
              g   == frame_buffers'[s].cooldown_timer
          IN /\ g \in DOMAIN timers'
             /\ timers'[g].rec = rec.id
             /\ timers'[g].deadline = rec.last_detection_time + PostBuffer ]_vars

\* C34: the hand-off between the capture thread and the processing thread
\* holds at most one frame, and the frame the processing thread takes is
\* the most recent frame the capture thread has offered.
C34_LatestWins ==
  [][ \A s \in Streams :
        /\ Len(frame_queue'[s]) <= 1
        /\ (s \notin DOMAIN proc /\ s \in DOMAIN proc') => proc'[s] = cap_seq[s] ]_vars

\* C35: once stop() has returned and both threads have left their loops,
\* the capture device is not open.
C35_SourceClosedAfterStop ==
  (unit.spc = "done" /\ unit.cpc = "exited" /\ unit.ppc = "exited")
    => unit.cap # "open"

\* C36: at most one thread running _storage_cleanup_loop is alive, over
\* every sequence of start() and stop().
C36_OneCleanupThread ==
  Cardinality({ i \in 1..Len(unit.threads) : unit.threads[i] # "exited" }) <= 1

\* C37: the id under which DetectorManager exposes a stream is the id under
\* which the stream is registered with the recorder and stored in its rows,
\* so the stream statistics of an exposed id count that stream's clips.
C37_ExposedIdIsStreamId ==
  \A key \in DOMAIN unit.detectors :
    /\ key \in unit.registered
    /\ unit.detectors[key] = key
    /\ GetStreams[key].recording_count
         = Cardinality({ r \in unit.rows : r.stream_id = unit.detectors[key] })

\* entries of active_recordings of stream s
EntriesOf(s) ==
  { i \in 1..Len(active_recordings) : active_recordings[i].stream_id = s }

\* C38: whenever no thread is inside the recorder's lock, for every
\* registered stream recording_in_progress holds iff exactly one entry of
\* active_recordings belongs to the stream, and iff the stream has a
\* cooldown timer.
C38_FlagEntryTimerAgree ==
  \A s \in DOMAIN frame_buffers :
    /\ frame_buffers[s].recording_in_progress <=> Cardinality(EntriesOf(s)) = 1
    /\ frame_buffers[s].recording_in_progress <=> frame_buffers[s].cooldown_timer # 0

\* C39: for every recording in active_recordings, frame_count is the number
\* of frames written to its writer: pre-roll, triggering frame and the
\* frames add_frame wrote.
C39_FrameCountIsFramesWritten ==
  \A i \in 1..Len(active_recordings) :
    active_recordings[i].frame_count
      = Len(writers[active_recordings[i].writer].frames)

\* C40: two recordings that are live at the same time never share their
\* file_path or their thumbnail_path.
C40_LivePathsDistinct ==
  \A i, j \in { k \in 1..Len(active_recordings) :
                  writers[active_recordings[k].writer].open } :
    i # j =>
      /\ active_recordings[i].file_path # active_recordings[j].file_path
      /\ active_recordings[i].thumbnail_path # active_recordings[j].thumbnail_path
====
